---- MODULE Spec2Model ----
(***************************************************************************)
(* Model of the company-ai RAG backend (apps/company-ai/backend/app).      *)
(*                                                                         *)
(* Spec       the indexer, services/indexer.py index_document, as a        *)
(*            state machine over the committed database (documents,        *)
(*            document_chunks) and one SQLAlchemy session per running      *)
(*            call.  Every commit is one step, so calls on different       *)
(*            documents interleave; at most one call runs per document.    *)
(*                                                                         *)
(* A document's extracted text is represented by what the chunker makes    *)
(* of it: NULL, the empty string, whitespace only (no chunk), or content   *)
(* that chunk_text_with_headings splits into n chunks.  A chunk tuple      *)
(* (chunk_content, char_start, char_end, heading) is a function of its     *)
(* position in the chunker's output and is represented by that position.   *)
(* An embedding is represented by its number of components (0: None).      *)
(*                                                                         *)
(* SpecQuery  retrieval and answering, services/rag.py                     *)
(*            perform_semantic_search and answer_question, over a seeded   *)
(*            chunk store.  Every call is one step, and a behaviour is one *)
(*            call on the seeded store: a call changes nothing a later     *)
(*            call reads.  Scores are integers in thousandths (300 stands  *)
(*            for 0.3); the scores of the chunks for the query asked are   *)
(*            drawn with the call.  A text is the sequence of its          *)
(*            characters; a fixed message of answer_question is taken as   *)
(*            one symbol.                                                  *)
(***************************************************************************)
EXTENDS Integers, Sequences, FiniteSets, TLC

\* ------------------------------------------------------------ bounds
\* chunks the chunker yields for the largest document text
MaxChunks == 2
\* index_document calls in one behaviour
MaxCalls == 3

\* ------------------------------------------------------------ constants
\* the fixed embedding dimensionality
EmbedDim == 768
\* a dimensionality the embedding service may answer with instead
WrongDim == EmbedDim \div 2
\* what the embedding service may answer: ok is FALSE when the request
\* raises (connection error, timeout, HTTP error status, no JSON); embeddings
\* is the value under "embeddings", each vector given by its length
EmbedResponses ==
    {[ok |-> FALSE, embeddings |-> <<>>], [ok |-> TRUE, embeddings |-> <<>>],
     [ok |-> TRUE, embeddings |-> <<0>>], [ok |-> TRUE, embeddings |-> <<EmbedDim>>],
     [ok |-> TRUE, embeddings |-> <<WrongDim>>]}
\* OllamaEmbedder.embed: the length of the vector returned, 0 stands for None;
\* blank: the text is empty or whitespace only
embed(blank, response) ==
    IF blank THEN 0
    ELSE IF ~response.ok THEN 0
    ELSE IF response.embeddings = <<>> THEN 0
    ELSE IF Head(response.embeddings) = 0 THEN 0
    ELSE Head(response.embeddings)
\* what embedder.embed returns for one chunk
EmbedOutcomes == {embed(FALSE, response) : response \in EmbedResponses}

Companies == {"A", "B"}
DocIds == {"d1", "d2", "d3", "d4"}
\* a well-formed id of no document
NoDocId == "d0"
AllIds == DocIds \cup {NoDocId}

NOT_INDEXED == "not_indexed"
INDEXING == "indexing"
INDEXED == "indexed"
FAILED == "failed"
IndexStatus == {NOT_INDEXED, INDEXING, INDEXED, FAILED}

\* index_error / error_message values
None == "None"
DbError == "db error"

\* document.text_extracted
TextNull == [kind |-> "null", n |-> 0]
TextEmpty == [kind |-> "empty", n |-> 0]
TextBlank == [kind |-> "blank", n |-> 0]
TextContent(n) == [kind |-> "content", n |-> n]

\* the seeded documents: company and extracted text
DocCompany(d) == IF d = "d2" THEN "B" ELSE "A"
DocTexts(d) ==
    CASE d = "d1" -> {TextContent(MaxChunks)}
      [] d = "d2" -> {TextContent(1)}
      [] d = "d3" -> {TextBlank}
      [] OTHER -> {TextNull, TextEmpty}

VARIABLES
    documents,   \* committed rows of table documents: id -> row
    chunks,      \* committed rows of table document_chunks
    pc,          \* per document: where the running index_document call stands
    session,     \* per document: the call's session and local variables
    result,      \* per document id: what the last call on it returned
    passes,      \* per document: passes begun; numbers the chunk generations
    ncalls,      \* index_document calls started so far
    scores,      \* per chunk: its semantic and lexical score for the query asked
    out          \* what the last search or answer_question call returned

ixvars == <<pc, session, result, passes, ncalls>>
qvars == <<scores, out>>
vars == <<documents, chunks, pc, session, result, passes, ncalls, scores, out>>

\* ------------------------------------------------------------ helpers
Max(a, b) == IF a >= b THEN a ELSE b
Min(a, b) == IF a <= b THEN a ELSE b

RECURSIVE SumSeq(_)
SumSeq(s) == IF s = <<>> THEN 0 ELSE Head(s) + SumSeq(Tail(s))

\* ------------------------------------------------------------ the session
\* nothing pending: no attribute written, no DELETE executed, no row added
CleanTxn == [dirty |-> FALSE, index_status |-> NOT_INDEXED, index_error |-> None,
             deleted |-> FALSE, added |-> {}]

\* the session and the local variables of a call; rows_deleted is the row
\* count of the DELETE of lines 60-62
NoSession ==
    [txn |-> CleanTxn, rows_deleted |-> 0, chunks_with_metadata |-> <<>>,
     embeddings |-> <<>>, chunks_created |-> 0, failed_count |-> 0]

\* what a call returned, (success, error_message, chunks_created), and of the
\* pass behind it: the statement that raised, the number of chunk tuples the
\* chunker produced and the number of embeddings that were None
NoResult ==
    [returned |-> FALSE, success |-> FALSE, error |-> None, chunks_created |-> 0,
     raised_at |-> None, produced |-> 0, failed_count |-> 0]

\* document.index_status = s; document.index_error = e (pending until commit)
SetStatus(txn, s, e) == [txn EXCEPT !.dirty = TRUE, !.index_status = s, !.index_error = e]

\* db.commit(): the committed documents table after flushing d's pending attributes
CommitDocuments(docs, d, txn) ==
    IF txn.dirty
    THEN [docs EXCEPT ![d].index_status = txn.index_status,
                      ![d].index_error = txn.index_error]
    ELSE docs

CommitChunkRowsNoDelete(chs, d, txn) == chs \cup txn.added
CommitChunkRowsDeleteAll(chs, d, txn) == (IF txn.deleted THEN {} ELSE chs) \cup txn.added

\* db.commit(): the committed document_chunks table after the pending DELETE of
\* d's chunks and the pending inserts
CommitChunkRows(chs, d, txn) ==
    (IF txn.deleted THEN {c \in chs : c.document_id # d} ELSE chs) \cup txn.added

\* ------------------------------------------------------------ index_document
PreconditionErrorNoCompany(docs, document_id, company_id) ==
    IF document_id \notin DOMAIN docs THEN "Document not found"
    ELSE IF docs[document_id].text_extracted.kind \in {"null", "empty"}
         THEN "Document has no extracted text"
    ELSE None

\* lines 39-51: the error of the first failing precondition, or None
PreconditionError(docs, document_id, company_id) ==
    IF document_id \notin DOMAIN docs THEN "Document not found"
    ELSE IF docs[document_id].company_id # company_id
         THEN "Document does not belong to company"
    ELSE IF docs[document_id].text_extracted.kind \in {"null", "empty"}
         THEN "Document has no extracted text"
    ELSE None

\* lines 66-70: the chunk tuples of a text, each represented by its position
ChunksWithMetadata(text) == [i \in 1..text.n |-> i - 1]

StatusNoChunksFailed == FAILED

\* line 73: the status recorded when the text yields no chunk
StatusNoChunks == NOT_INDEXED

\* line 85: failed_count = sum(1 for e in embeddings if e is None)
FailedCount(embeddings) ==
    Cardinality({i \in DOMAIN embeddings : embeddings[i] = 0})

KeptAnyDimension(embeddings, idx) == embeddings[idx + 1] # 0

\* lines 95-102: the chunk at enumerate index idx is kept
Kept(embeddings, idx) ==
    /\ embeddings[idx + 1] # 0
    /\ embeddings[idx + 1] = EmbedDim

\* line 107: chunk_index=idx, the enumerate index over all chunk tuples
ChunkIndex(idx) == idx

\* lines 93-116: the DocumentChunk rows the loop adds to the session
ChunkRows(doc, d, cwm, embeddings, pass) ==
    { [company_id |-> doc.company_id,
       document_id |-> d,
       chunk_index |-> ChunkIndex(idx),
       pos |-> cwm[idx + 1],
       dim |-> embeddings[idx + 1],
       pass |-> pass] : idx \in {i \in 0..(Len(cwm) - 1) : Kept(embeddings, i)} }

\* the call on d returns; its session is closed and its locals are gone
Return(d, success, error, created, raised_at) ==
    /\ result' = [result EXCEPT ![d] =
                    [returned |-> TRUE, success |-> success, error |-> error,
                     chunks_created |-> created, raised_at |-> raised_at,
                     produced |-> Len(session[d].chunks_with_metadata),
                     failed_count |-> session[d].failed_count]]
    /\ session' = [session EXCEPT ![d] = NoSession]
    /\ pc' = [pc EXCEPT ![d] = "idle"]

\* lines 39-57 up to the commit: load, check, mark indexing in the session
Begin(d, c) ==
    /\ ncalls < MaxCalls
    /\ pc[d] = "idle"
    /\ ncalls' = ncalls + 1
    /\ UNCHANGED qvars
    /\ LET err == PreconditionError(documents, d, c) IN
       IF err # None
       THEN /\ result' = [result EXCEPT ![d] =
                              [NoResult EXCEPT !.returned = TRUE, !.error = err]]
            /\ UNCHANGED <<documents, chunks, pc, session, passes>>
       ELSE /\ session' = [session EXCEPT ![d] =
                              [NoSession EXCEPT
                                  !.txn = SetStatus(CleanTxn, INDEXING, None)]]
            /\ passes' = [passes EXCEPT ![d] = @ + 1]
            /\ pc' = [pc EXCEPT ![d] = "L57"]
            /\ UNCHANGED <<documents, chunks, result>>

\* db.commit() of the session of the call on d
Commit(d) ==
    /\ documents' = CommitDocuments(documents, d, session[d].txn)
    /\ chunks' = CommitChunkRows(chunks, d, session[d].txn)

\* line 57
CommitIndexing(d) ==
    /\ pc[d] = "L57"
    /\ UNCHANGED qvars
    /\ Commit(d)
    /\ session' = [session EXCEPT ![d].txn = CleanTxn]
    /\ pc' = [pc EXCEPT ![d] = "L60"]
    /\ UNCHANGED <<result, passes, ncalls>>

\* lines 59-63: DELETE the document's chunks, commit
DeleteChunks(d) ==
    /\ pc[d] = "L60"
    /\ UNCHANGED qvars
    /\ documents' = CommitDocuments(documents, d, session[d].txn)
    /\ chunks' = CommitChunkRows(chunks, d, [session[d].txn EXCEPT !.deleted = TRUE])
    /\ session' = [session EXCEPT
          ![d].txn = CleanTxn,
          ![d].rows_deleted = Cardinality({c \in chunks : c.document_id = d})]
    /\ pc' = [pc EXCEPT ![d] = "L66"]
    /\ UNCHANGED <<result, passes, ncalls>>

\* lines 65-116: chunk, embed, and either mark the failure or add the rows
ChunkAndEmbed(d) ==
    /\ pc[d] = "L66"
    /\ UNCHANGED qvars
    /\ LET cwm == ChunksWithMetadata(documents[d].text_extracted) IN
       IF Len(cwm) = 0
       THEN /\ session' = [session EXCEPT
                  ![d].chunks_with_metadata = cwm,
                  ![d].txn = SetStatus(CleanTxn, StatusNoChunks,
                                       "No chunks generated from document text")]
            /\ pc' = [pc EXCEPT ![d] = "L75"]
       ELSE \E embeddings \in [1..Len(cwm) -> EmbedOutcomes] :
            IF FailedCount(embeddings) = Len(embeddings)
            THEN /\ session' = [session EXCEPT
                       ![d].chunks_with_metadata = cwm,
                       ![d].embeddings = embeddings,
                       ![d].failed_count = FailedCount(embeddings),
                       ![d].txn = SetStatus(CleanTxn, FAILED,
                                   "Failed to generate embeddings for all chunks")]
                 /\ pc' = [pc EXCEPT ![d] = "L89"]
            ELSE LET rows == ChunkRows(documents[d], d, cwm, embeddings,
                                       passes[d]) IN
                 /\ session' = [session EXCEPT
                       ![d].chunks_with_metadata = cwm,
                       ![d].embeddings = embeddings,
                       ![d].failed_count = FailedCount(embeddings),
                       ![d].chunks_created = Cardinality(rows),
                       ![d].txn = [CleanTxn EXCEPT !.added = rows]]
                 /\ pc' = [pc EXCEPT ![d] = "L118"]
    /\ UNCHANGED <<documents, chunks, result, passes, ncalls>>

\* lines 75-76
CommitNoChunks(d) ==
    /\ pc[d] = "L75"
    /\ UNCHANGED qvars
    /\ Commit(d)
    /\ Return(d, FALSE, "No chunks generated", 0, None)
    /\ UNCHANGED <<passes, ncalls>>

\* lines 89-90
CommitEmbedFailed(d) ==
    /\ pc[d] = "L89"
    /\ UNCHANGED qvars
    /\ Commit(d)
    /\ Return(d, FALSE, "Failed to generate embeddings", 0, None)
    /\ UNCHANGED <<passes, ncalls>>

\* lines 118-126: commit the rows, then set the final status in the session
CommitChunks(d) ==
    /\ pc[d] = "L118"
    /\ UNCHANGED qvars
    /\ Commit(d)
    /\ session' = [session EXCEPT ![d].txn =
          IF session[d].chunks_created > 0
          THEN SetStatus(CleanTxn, INDEXED, None)
          ELSE SetStatus(CleanTxn, FAILED, "No chunks were successfully indexed")]
    /\ pc' = [pc EXCEPT ![d] = "L128"]
    /\ UNCHANGED <<result, passes, ncalls>>

\* line 133: the success flag returned after the final commit
ReturnedSuccess(chunks_created) == TRUE

\* lines 128-133
CommitStatus(d) ==
    /\ pc[d] = "L128"
    /\ UNCHANGED qvars
    /\ Commit(d)
    /\ Return(d, ReturnedSuccess(session[d].chunks_created), None,
              session[d].chunks_created, None)
    /\ UNCHANGED <<passes, ncalls>>

\* lines 137-140: the attributes are written to the loaded document, then
\* Session.rollback() expires every loaded object and discards every pending
\* change, these writes included; the commit that follows has nothing to flush
Rollback(txn) == CleanTxn
HandlerTxn(txn) == Rollback(SetStatus(txn, FAILED, DbError))

\* lines 135-141: the statement about to run raises; the handler runs
ExceptionRaised(d) ==
    /\ pc[d] \in {"L57", "L60", "L66", "L75", "L89", "L118", "L128"}
    /\ UNCHANGED qvars
    /\ documents' = CommitDocuments(documents, d, HandlerTxn(session[d].txn))
    /\ chunks' = CommitChunkRows(chunks, d, HandlerTxn(session[d].txn))
    /\ Return(d, FALSE, DbError, 0, pc[d])
    /\ UNCHANGED <<passes, ncalls>>

\* ------------------------------------------------------------ retrieval
\* bound on the top_k a caller asks for
MaxTopK == 2

\* settings.RAG_TOP_K
RAG_TOP_K == 5
\* the grounding gate of answer_question, 0.3
GateThreshold == 300
\* the confidence thresholds of answer_question, 0.7 and 0.5
HighThreshold == 700
MediumThreshold == 500

\* the semantic and the lexical score a chunk may have for a query
ScorePairs == {[sem |-> 300, lex |-> 0], [sem |-> 200, lex |-> 900],
               [sem |-> 900, lex |-> 900]}
DefaultScore == [sem |-> 300, lex |-> 0]

\* document_id=None
NoFilter == None
\* top_k=None
NoTopK == 0

\* the rows the first index pass stores for a seeded document when every
\* embedding is valid
SeedText(d) ==
    CASE d = "d1" -> TextContent(MaxChunks)
      [] d \in {"d2", "d3"} -> TextContent(1)
      [] OTHER -> TextNull
SeedRowsOf(d) ==
    ChunkRows([company_id |-> DocCompany(d)], d, ChunksWithMetadata(SeedText(d)),
              [i \in 1..SeedText(d).n |-> EmbedDim], 1)
SeedRows == UNION {SeedRowsOf(d) : d \in DocIds}

\* DocumentChunk.heading of the chunk at position pos of document d:
\* <<>> for None, <<h>> for the heading h
NoHeading == <<>>
ChunkHeading(d, pos) ==
    CASE d = "d1" -> <<<<"L", "e", "a", "v", "e">>>>
      [] d = "d2" -> <<<<"P", "a", "y">>>>
      [] OTHER -> NoHeading

\* DocumentChunk.text of the chunk at position pos of document d
ChunkText(d, pos) ==
    CASE d = "d1" /\ pos = 0 ->
        <<"S", "t", "a", "f", "f", " ", "g", "e", "t", " ", "2", "0", " ", "d", "a", "y",
        "s", ".", " ", "A", "s", "k", " ", "H", "R", " ", "f", "i", "r", "s", "t", ".",
        " ", "E", "n", "d">>
      [] d = "d1" /\ pos = 1 ->
        <<"N", "o", "t", "i", "c", "e", " ", "i", "s", " ", "2", " ", "w", "e", "e", "k",
        "s", ".", " ", "S", "i", "c", "k", " ", "p", "a", "y", " ", "i", "s", " ", "f",
        "u", "l", "l", ".", " ", "E", "n", "d">>
      [] d = "d1" ->
        <<"A", "s", "k", " ", "H", "R", " ", "f", "i", "r", "s", "t", ".", " ", "C", "a",
        "r", "r", "y", " ", "o", "v", "e", "r", " ", "5", " ", "d", "a", "y", "s", ".",
        " ", "E", "n", "d">>
      [] d = "d2" ->
        <<"P", "a", "y", " ", "d", "a", "y", " ", "i", "s", " ", "2", "5", ".", " ", "P",
        "a", "y", " ", "d", "a", "y", " ", "i", "s", " ", "2", "5", ".", " ", "x">>
      [] OTHER ->
        <<"N", "o", " ", "s", "e", "n", "t", "e", "n", "c", "e", " ", "h", "e", "r", "e">>

\* DocumentChunk.id, the primary key of a row
ChunkId(c) == <<c.document_id, c.chunk_index, c.pass>>

\* Document.filename_original
Filename(docs, d) == IF d \in DOMAIN docs THEN <<"f", d>> ELSE <<"Unknown">>

Range(f) == {f[i] : i \in DOMAIN f}

CandidatePoolNoCompany(chs, company_id, document_id) ==
    {c \in chs : IF document_id # NoFilter THEN c.document_id = document_id
                 ELSE c.company_id = company_id}

\* rag.py lines 65-79 and 184-196, the WHERE clause: the company's chunks,
\* of the one document when a filter is given
CandidatePool(chs, company_id, document_id) ==
    {c \in chs : /\ c.company_id = company_id
                 /\ document_id # NoFilter => c.document_id = document_id}

\* ORDER BY score DESC LIMIT k over the rows S: every answer the database may
\* give (rows of equal score come in any order); score[x] is the score of x
RECURSIVE TopBy(_, _, _)
TopBy(S, k, score) ==
    IF k = 0 \/ S = {} THEN {<<>>}
    ELSE LET best == {x \in S : \A y \in S : score[y] <= score[x]}
         IN UNION {{<<x>> \o r : r \in TopBy(S \ {x}, k - 1, score)} : x \in best}

CandidateLimitTwenty(top_k) == 20

\* line 62
CandidateLimit(top_k) == Max(top_k * 4, 20)

\* lines 100, 119, 121: the scores the hybrid query computes for a row
SemanticScore(sc, c) == sc[c].sem
LexicalScore(sc, c) == sc[c].lex
FinalScore(sc, c) == (7 * SemanticScore(sc, c) + 3 * LexicalScore(sc, c)) \div 10

\* lines 156-167
HybridRow(docs, sc, c) ==
    [chunk_id |-> ChunkId(c), document_id |-> c.document_id,
     document_filename |-> Filename(docs, c.document_id),
     chunk_index |-> c.chunk_index,
     text |-> ChunkText(c.document_id, c.pos),
     heading |-> ChunkHeading(c.document_id, c.pos),
     similarity_score |-> FinalScore(sc, c),
     semantic_score |-> SemanticScore(sc, c),
     lexical_score |-> LexicalScore(sc, c)]

\* lines 230-239
FallbackRow(docs, sc, c) ==
    [chunk_id |-> ChunkId(c), document_id |-> c.document_id,
     document_filename |-> Filename(docs, c.document_id),
     chunk_index |-> c.chunk_index,
     text |-> ChunkText(c.document_id, c.pos),
     heading |-> ChunkHeading(c.document_id, c.pos),
     similarity_score |-> SemanticScore(sc, c)]

\* lines 89-126, 132-133, 140-169: the row lists the hybrid query may yield
HybridSearch(chs, docs, sc, company_id, top_k, document_id) ==
    LET pool == CandidatePool(chs, company_id, document_id)
        cands == TopBy(pool, CandidateLimit(top_k), [c \in pool |-> SemanticScore(sc, c)])
        picks == UNION { TopBy(Range(cand), top_k, [c \in pool |-> FinalScore(sc, c)]) :
                         cand \in cands }
    IN { [i \in DOMAIN r |-> HybridRow(docs, sc, r[i])] : r \in picks }

\* lines 172-241
FallbackSemanticSearch(chs, docs, sc, company_id, top_k, document_id) ==
    LET pool == CandidatePool(chs, company_id, document_id)
        picks == TopBy(pool, top_k, [c \in pool |-> SemanticScore(sc, c)])
    IN { [i \in DOMAIN r |-> FallbackRow(docs, sc, r[i])] : r \in picks }

\* lines 49-169: every outcome of perform_semantic_search, given what the
\* embedding of the query is (embedding), whether the hybrid query executes
\* (hybrid_ok) and whether the fallback query does (fallback_ok)
PerformSemanticSearch(chs, docs, sc, company_id, top_k, document_id, embedding, hybrid_ok, fallback_ok) ==
    IF embedding = 0 \/ embedding # EmbedDim
    THEN {[raised |-> FALSE, path |-> "no_embedding", rows |-> <<>>]}
    ELSE IF hybrid_ok
    THEN {[raised |-> FALSE, path |-> "hybrid", rows |-> r] :
            r \in HybridSearch(chs, docs, sc, company_id, top_k, document_id)}
    ELSE IF fallback_ok
    THEN {[raised |-> FALSE, path |-> "fallback", rows |-> r] :
            r \in FallbackSemanticSearch(chs, docs, sc, company_id, top_k, document_id)}
    ELSE {[raised |-> TRUE, path |-> "fallback", rows |-> <<>>]}

\* ------------------------------------------------------------ text
\* A text is the sequence of its characters.
LowerLetters ==
    {"a", "b", "c", "d", "e", "f", "g", "h", "i", "j", "k", "l", "m", "n", "o", "p", "q", "r",
    "s", "t", "u", "v", "w", "x", "y", "z"}
UpperLetters ==
    {"A", "B", "C", "D", "E", "F", "G", "H", "I", "J", "K", "L", "M", "N", "O", "P", "Q", "R",
    "S", "T", "U", "V", "W", "X", "Y", "Z"}
Digits == {"0", "1", "2", "3", "4", "5", "6", "7", "8", "9"}
Whitespace == {" ", "\n", "\t"}
\* the characters the regular expressions' \w and \b are about
WordChars == LowerLetters \cup UpperLetters \cup Digits \cup {"_"}

ToLower ==
    "A" :> "a" @@ "B" :> "b" @@ "C" :> "c" @@ "D" :> "d" @@ "E" :> "e" @@ "F" :> "f" @@ "G" :> "g" @@
    "H" :> "h" @@ "I" :> "i" @@ "J" :> "j" @@ "K" :> "k" @@ "L" :> "l" @@ "M" :> "m" @@ "N" :> "n" @@
    "O" :> "o" @@ "P" :> "p" @@ "Q" :> "q" @@ "R" :> "r" @@ "S" :> "s" @@ "T" :> "t" @@ "U" :> "u" @@
    "V" :> "v" @@ "W" :> "w" @@ "X" :> "x" @@ "Y" :> "y" @@ "Z" :> "z"

\* str.lower()
Lower(t) == [i \in DOMAIN t |-> IF t[i] \in DOMAIN ToLower THEN ToLower[t[i]] ELSE t[i]]

\* str.strip(), str.rstrip()
RECURSIVE LStrip(_)
LStrip(t) == IF t # <<>> /\ Head(t) \in Whitespace THEN LStrip(Tail(t)) ELSE t
RECURSIVE RStrip(_)
RStrip(t) ==
    IF t # <<>> /\ t[Len(t)] \in Whitespace THEN RStrip(SubSeq(t, 1, Len(t) - 1)) ELSE t
Strip(t) == RStrip(LStrip(t))

\* t[:n]
Prefix(t, n) == SubSeq(t, 1, Min(n, Len(t)))

\* "p occurs in t at position i"
OccursAt(t, i, p) == i + Len(p) - 1 <= Len(t) /\ SubSeq(t, i, i + Len(p) - 1) = p

\* the operator 'in' of two strings
Contains(t, p) == \E i \in 1..(Len(t) + 1) : OccursAt(t, i, p)

\* str.rfind(ch), 0-based, -1 when ch does not occur
RFind(t, ch) ==
    LET at == {i \in DOMAIN t : t[i] = ch} IN
    IF at = {} THEN -1 ELSE (CHOOSE i \in at : \A j \in at : j <= i) - 1

\* the length of the run of characters of t from position i on that are
\* in (inside) or are not in (~inside) the set cs
RECURSIVE Run(_, _, _, _)
Run(t, i, cs, inside) ==
    IF i <= Len(t) /\ ((t[i] \in cs) <=> inside) THEN 1 + Run(t, i + 1, cs, inside) ELSE 0

\* the words of t: the maximal runs of word characters, which are the
\* stretches of t that a pattern \b...\b over word characters can match
Words(t) ==
    {SubSeq(t, i, i + Run(t, i, WordChars, TRUE) - 1) :
        i \in {k \in DOMAIN t : t[k] \in WordChars /\ (k = 1 \/ t[k - 1] \notin WordChars)}}

\* rag.py lines 533-542
stop_words == {
    <<"t", "h", "e">>, <<"a">>, <<"a", "n">>, <<"a", "n", "d">>, <<"o", "r">>,
    <<"b", "u", "t">>, <<"i", "n">>, <<"o", "n">>, <<"a", "t">>, <<"t", "o">>,
    <<"f", "o", "r">>, <<"o", "f">>, <<"w", "i", "t", "h">>, <<"b", "y">>,
    <<"f", "r", "o", "m">>, <<"a", "s">>, <<"i", "s">>, <<"a", "r", "e">>, <<"w", "a", "s">>,
    <<"w", "e", "r", "e">>, <<"b", "e">>, <<"b", "e", "e", "n">>, <<"b", "e", "i", "n", "g">>,
    <<"h", "a", "v", "e">>, <<"h", "a", "s">>, <<"h", "a", "d">>, <<"d", "o">>,
    <<"d", "o", "e", "s">>, <<"d", "i", "d">>, <<"w", "i", "l", "l">>,
    <<"w", "o", "u", "l", "d">>, <<"c", "o", "u", "l", "d">>, <<"s", "h", "o", "u", "l", "d">>,
    <<"m", "a", "y">>, <<"m", "i", "g", "h", "t">>, <<"m", "u", "s", "t">>, <<"c", "a", "n">>,
    <<"t", "h", "i", "s">>, <<"t", "h", "a", "t">>, <<"t", "h", "e", "s", "e">>,
    <<"t", "h", "o", "s", "e">>, <<"i">>, <<"y", "o", "u">>, <<"h", "e">>, <<"s", "h", "e">>,
    <<"i", "t">>, <<"w", "e">>, <<"t", "h", "e", "y">>, <<"w", "h", "a", "t">>,
    <<"w", "h", "i", "c", "h">>, <<"w", "h", "o">>, <<"w", "h", "e", "r", "e">>,
    <<"w", "h", "e", "n">>, <<"w", "h", "y">>, <<"h", "o", "w">>, <<"i", "f">>,
    <<"t", "h", "e", "n">>, <<"t", "h", "a", "n">>, <<"m", "o", "r", "e">>,
    <<"m", "o", "s", "t">>, <<"l", "e", "s", "s">>, <<"l", "e", "a", "s", "t">>,
    <<"v", "e", "r", "y">>, <<"m", "u", "c", "h">>, <<"m", "a", "n", "y">>,
    <<"s", "o", "m", "e">>, <<"a", "n", "y">>, <<"a", "l", "l">>, <<"e", "a", "c", "h">>,
    <<"e", "v", "e", "r", "y">>, <<"n", "o">>, <<"n", "o", "t">>, <<"o", "n", "l", "y">>,
    <<"j", "u", "s", "t">>}

\* rag.py lines 512-557, _extract_answer_keywords
ExtractAnswerKeywords(answer) ==
    IF answer = <<>> THEN {}
    ELSE LET words == {w \in Words(Lower(answer)) :
                         \A i \in DOMAIN w : w[i] \in LowerLetters \cup Digits}
             keywords == {w \in words : w \notin stop_words /\ Len(w) > 2}
             numbers == {w \in Words(answer) : \A i \in DOMAIN w : w[i] \in Digits}
         IN keywords \cup numbers

QuoteIsRelevantAlways(quote, answer_keywords) == TRUE

\* rag.py lines 560-589, _quote_is_relevant
QuoteIsRelevant(quote, answer_keywords) ==
    /\ quote # <<>>
    /\ answer_keywords # {}
    /\ {Lower(keyword) : keyword \in answer_keywords} \cap Words(Lower(quote)) # {}

\* the length of the match of ([.!?]\s+|\.$) at position i of the stripped
\* text t, 0 when it does not match there
SpaceRun(t, i) == Run(t, i, Whitespace, TRUE)
DelimiterAt(t, i) ==
    IF t[i] \in {".", "!", "?"} /\ SpaceRun(t, i + 1) > 0 THEN 1 + SpaceRun(t, i + 1)
    ELSE IF t[i] = "." /\ i = Len(t) THEN 1
    ELSE 0

\* rag.py lines 621-632: re.split and the loop that glues each piece to the
\* delimiter after it; the piece after the last delimiter is not taken up
RECURSIVE Reconstructed(_, _, _)
Reconstructed(t, start, i) ==
    IF i > Len(t) THEN <<>>
    ELSE IF DelimiterAt(t, i) = 0 THEN Reconstructed(t, start, i + 1)
    ELSE LET next == i + DelimiterAt(t, i)
             sentence == Strip(SubSeq(t, start, next - 1))
         IN (IF sentence # <<>> THEN <<sentence>> ELSE <<>>)
                \o Reconstructed(t, next, next)

\* lines 644-649 and 659-664
Truncated(t, max_length) ==
    LET truncated == Prefix(t, max_length)
        last_space == RFind(truncated, " ")
    IN IF last_space * 10 > max_length * 7
       THEN Prefix(truncated, last_space) \o <<".", ".", ".">>
       ELSE RStrip(truncated) \o <<".", ".", ".">>

\* lines 636-651, the loop over the sentences
RECURSIVE SentenceQuotes(_, _, _, _)
SentenceQuotes(sentences, quotes, max_quotes, max_length) ==
    IF sentences = <<>> THEN quotes
    ELSE IF Len(Head(sentences)) <= max_length
    THEN IF Len(quotes) + 1 >= max_quotes THEN Append(quotes, Head(sentences))
         ELSE SentenceQuotes(Tail(sentences), Append(quotes, Head(sentences)),
                             max_quotes, max_length)
    ELSE IF Len(quotes) = 0 THEN <<Truncated(Head(sentences), max_length)>>
    ELSE SentenceQuotes(Tail(sentences), quotes, max_quotes, max_length)

\* rag.py lines 592-667, _extract_quotes
ExtractQuotes(chunk_text, max_quotes, max_length) ==
    IF chunk_text = <<>> \/ Strip(chunk_text) = <<>> THEN <<>>
    ELSE LET text == Strip(chunk_text)
             reconstructed == Reconstructed(text, 1, 1)
             quotes == SentenceQuotes(reconstructed, <<>>, max_quotes, max_length)
         IN IF reconstructed # <<>> /\ quotes # <<>> THEN Prefix(quotes, max_quotes)
            ELSE IF Len(text) > max_length THEN <<Truncated(text, max_length)>>
            ELSE <<text>>

\* re.sub(pattern, repl, t) from position i on, where lens[j] is the length
\* of the pattern's match at position j of t (0: no match there)
RECURSIVE Sub(_, _, _, _)
Sub(t, lens, repl, i) ==
    IF i > Len(t) THEN <<>>
    ELSE IF lens[i] > 0 THEN repl \o Sub(t, lens, repl, i + lens[i])
    ELSE <<t[i]>> \o Sub(t, lens, repl, i + 1)

\* rag.py lines 693-701: the texts each preamble pattern starts with, in
\* lower case; every pattern goes on with .*?(?=\.|:|\n)
preambles == <<
    {
        <<"i", "'", "v", "e", " ", "c", "h", "e", "c", "k", "e", "d", " ", "t", "h", "r", "o", "u", "g", "h", " ", "t", "h", "e", " ", "p", "r", "o", "v", "i", "d", "e", "d", " ", "d", "o", "c", "u", "m", "e", "n", "t">>,
        <<"i", "'", "v", "e", " ", "c", "h", "e", "c", "k", "e", "d", " ", "t", "h", "r", "o", "u", "g", "h", " ", "t", "h", "e", " ", "d", "o", "c", "u", "m", "e", "n", "t">>,
        <<"i", "'", "v", "e", " ", "c", "h", "e", "c", "k", "e", "d", " ", "t", "h", "e", " ", "p", "r", "o", "v", "i", "d", "e", "d", " ", "d", "o", "c", "u", "m", "e", "n", "t">>,
        <<"i", "'", "v", "e", " ", "c", "h", "e", "c", "k", "e", "d", " ", "t", "h", "e", " ", "d", "o", "c", "u", "m", "e", "n", "t">>,
        <<"i", "'", "v", "e", " ", "s", "e", "a", "r", "c", "h", "e", "d", " ", "t", "h", "r", "o", "u", "g", "h", " ", "t", "h", "e", " ", "p", "r", "o", "v", "i", "d", "e", "d", " ", "d", "o", "c", "u", "m", "e", "n", "t">>,
        <<"i", "'", "v", "e", " ", "s", "e", "a", "r", "c", "h", "e", "d", " ", "t", "h", "r", "o", "u", "g", "h", " ", "t", "h", "e", " ", "d", "o", "c", "u", "m", "e", "n", "t">>,
        <<"i", "'", "v", "e", " ", "s", "e", "a", "r", "c", "h", "e", "d", " ", "t", "h", "e", " ", "p", "r", "o", "v", "i", "d", "e", "d", " ", "d", "o", "c", "u", "m", "e", "n", "t">>,
        <<"i", "'", "v", "e", " ", "s", "e", "a", "r", "c", "h", "e", "d", " ", "t", "h", "e", " ", "d", "o", "c", "u", "m", "e", "n", "t">>,
        <<"i", "'", "v", "e", " ", "r", "e", "v", "i", "e", "w", "e", "d", " ", "t", "h", "r", "o", "u", "g", "h", " ", "t", "h", "e", " ", "p", "r", "o", "v", "i", "d", "e", "d", " ", "d", "o", "c", "u", "m", "e", "n", "t">>,
        <<"i", "'", "v", "e", " ", "r", "e", "v", "i", "e", "w", "e", "d", " ", "t", "h", "r", "o", "u", "g", "h", " ", "t", "h", "e", " ", "d", "o", "c", "u", "m", "e", "n", "t">>,
        <<"i", "'", "v", "e", " ", "r", "e", "v", "i", "e", "w", "e", "d", " ", "t", "h", "e", " ", "p", "r", "o", "v", "i", "d", "e", "d", " ", "d", "o", "c", "u", "m", "e", "n", "t">>,
        <<"i", "'", "v", "e", " ", "r", "e", "v", "i", "e", "w", "e", "d", " ", "t", "h", "e", " ", "d", "o", "c", "u", "m", "e", "n", "t">>},
    {
        <<"i", "'", "v", "e", " ", "f", "o", "u", "n", "d", " ", "r", "e", "l", "e", "v", "a", "n", "t", " ", "i", "n", "f", "o", "r", "m", "a", "t", "i", "o", "n">>},
    {
        <<"a", "c", "c", "o", "r", "d", "i", "n", "g", " ", "t", "o", " ", "d", "o", "c", "u", "m", "e", "n", "t">>,
        <<"a", "c", "c", "o", "r", "d", "i", "n", "g", " ", "t", "o", " ", "c", "h", "u", "n", "k">>},
    {
        <<"a", "s", " ", "s", "t", "a", "t", "e", "d", " ", "i", "n", " ", "d", "o", "c", "u", "m", "e", "n", "t">>,
        <<"a", "s", " ", "s", "t", "a", "t", "e", "d", " ", "i", "n", " ", "c", "h", "u", "n", "k">>},
    {
        <<"b", "a", "s", "e", "d", " ", "o", "n", " ", "d", "o", "c", "u", "m", "e", "n", "t">>,
        <<"b", "a", "s", "e", "d", " ", "o", "n", " ", "c", "h", "u", "n", "k">>},
    {
        <<"d", "o", "c", "u", "m", "e", "n", "t", " ", "c", "h", "e", "c", "k", "e", "d", ":">>},
    {
        <<"d", "o", "c", "u", "m", "e", "n", "t", " ", "c", "h", "e", "c", "k", "e", "d", ":">>,
        <<"d", "o", "c", "u", "m", "e", "n", "t", " ", "r", "e", "v", "i", "e", "w", "e", "d", ":">>,
        <<"d", "o", "c", "u", "m", "e", "n", "t", " ", "s", "e", "a", "r", "c", "h", "e", "d", ":">>,
        <<"d", "o", "c", "u", "m", "e", "n", "t", "s", " ", "c", "h", "e", "c", "k", "e", "d", ":">>,
        <<"d", "o", "c", "u", "m", "e", "n", "t", "s", " ", "r", "e", "v", "i", "e", "w", "e", "d", ":">>,
        <<"d", "o", "c", "u", "m", "e", "n", "t", "s", " ", "s", "e", "a", "r", "c", "h", "e", "d", ":">>}>>

\* the match of a preamble pattern at position i: one of its opening texts,
\* whatever the case, and all that follows up to the next '.', ':' or newline
PreambleAt(t, lower, i, openings) ==
    LET hits == {o \in openings : OccursAt(lower, i, o)}
        after == i + Len(CHOOSE o \in hits : TRUE)
        stops == {j \in after..Len(t) : t[j] \in {".", ":", "\n"}}
    IN IF hits = {} \/ stops = {} THEN 0
       ELSE (CHOOSE j \in stops : \A k \in stops : j <= k) - i

\* line 705, re.sub(pattern, "", cleaned, flags=re.IGNORECASE | re.DOTALL)
RemovePreamble(t, lower, openings) ==
    Sub(t, [i \in DOMAIN t |-> PreambleAt(t, lower, i, openings)], <<>>, 1)

\* lines 704-705, the loop over the patterns from the n-th on
RECURSIVE RemovePreambles(_, _)
RemovePreambles(t, n) ==
    IF n > Len(preambles) THEN t
    ELSE RemovePreambles(RemovePreamble(t, Lower(t), preambles[n]), n + 1)

HexDigits == Digits \cup {"a", "b", "c", "d", "e", "f", "A", "B", "C", "D", "E", "F"}
UuidLen == 36
UuidDashes == {9, 14, 19, 24}

\* line 708, uuid_pattern at position i
UuidAt(t, i) ==
    IF /\ i + UuidLen - 1 <= Len(t)
       /\ \A k \in 1..UuidLen :
            IF k \in UuidDashes THEN t[i + k - 1] = "-" ELSE t[i + k - 1] \in HexDigits
       /\ i = 1 \/ t[i - 1] \notin WordChars
       /\ i + UuidLen - 1 = Len(t) \/ t[i + UuidLen] \notin WordChars
    THEN UuidLen ELSE 0

\* line 709
RemoveUuids(t) == Sub(t, [i \in DOMAIN t |-> UuidAt(t, i)], <<>>, 1)

\* line 712, Chunk:\s*[^\s,]+ at position i
ChunkRefAt(t, lower, i) ==
    LET opening == <<"c", "h", "u", "n", "k", ":">>
        spaces == Run(t, i + Len(opening), Whitespace, TRUE)
        ref == Run(t, i + Len(opening) + spaces, Whitespace \cup {","}, FALSE)
    IN IF OccursAt(lower, i, opening) /\ ref > 0 THEN Len(opening) + spaces + ref ELSE 0

\* line 712
RemoveChunkRefs(t, lower) ==
    Sub(t, [i \in DOMAIN t |-> ChunkRefAt(t, lower, i)], <<>>, 1)

\* lines 715-716, \n{3,} and ' {2,}' at position i
RepeatAt(t, i, ch, least) ==
    IF Run(t, i, {ch}, TRUE) >= least THEN Run(t, i, {ch}, TRUE) ELSE 0

\* lines 715-716
Collapse(t, ch, least, repl) ==
    Sub(t, [i \in DOMAIN t |-> RepeatAt(t, i, ch, least)], repl, 1)

CleanWhitespace(t) == Strip(Collapse(Collapse(t, "\n", 3, <<"\n", "\n">>), " ", 2, <<" ">>))
CleanReferences(t) == RemoveChunkRefs(t, Lower(t))

\* rag.py lines 670-719, _clean_answer_text
CleanAnswerText(answer) ==
    IF answer = <<>> THEN answer
    ELSE CleanWhitespace(CleanReferences(RemoveUuids(RemovePreambles(answer, 1))))

\* ------------------------------------------------------------ answering
\* the fixed answers of answer_question, each taken as one symbol
MsgNoInformation ==
    <<"I don't have enough information in the uploaded documents to answer this question.">>
MsgLowRelevance ==
    <<"I don't have enough information in the uploaded documents to answer this question. The available documents do not contain information directly related to this topic.">>
MsgGenerationError ==
    <<"I encountered an error while generating a response. Please try again.">>

\* what the language-model service does when asked: the request times out,
\* fails, answers something that is no JSON object, or answers with the text
\* of its "response" field (<<>>: the field is missing or empty)
LLMTexts == {
    <<>>,
    <<" ", " ">>,
    <<"S", "t", "a", "f", "f", " ", "g", "e", "t", " ", "2", "0", " ", "d", "a", "y",
        "s", ".">>,
    <<" ", "A", "c", "c", "o", "r", "d", "i", "n", "g", " ", "t", "o", " ", "D", "o",
        "c", "u", "m", "e", "n", "t", " ", "a", ":", " ", "a", "s", "k", " ", "H", "R",
        ".", "\n">>,
    <<"C", "h", "u", "n", "k", ":", " ", "1", "2">>,
    <<"N", "o", " ", "s", "e", "n", "t", "e", "n", "c", "e", " ", "h", "e", "r", "e",
        ",", " ", "s", "i", "c", "k", " ", "p", "a", "y">>,
    <<"S", "t", "a", "f", "f", " ", "a", "s", "k", ":", " ", "s", "i", "c", "k", " ",
        "n", "o", "t", "i", "c", "e">>}
LLMOutcomes ==
    {[kind |-> k, text |-> <<>>] : k \in {"timeout", "request_error", "error"}}
    \cup {[kind |-> "response", text |-> t] : t \in LLMTexts}

NoAnswer == [ok |-> FALSE, text |-> <<>>]

\* llm.py lines 25-67, OllamaChatClient.generate: None (NoAnswer) or the text
Generate(llm) ==
    IF llm.kind # "response" THEN NoAnswer
    ELSE IF llm.text = <<>> THEN NoAnswer
    ELSE [ok |-> TRUE, text |-> Strip(llm.text)]

\* line 362
MaxSimilarity(rows) ==
    CHOOSE m \in {rows[i].similarity_score : i \in DOMAIN rows} :
        \A i \in DOMAIN rows : rows[i].similarity_score <= m

GatePassesAlways(rows) == TRUE

\* line 363, negated: the retrieved rows pass the grounding gate
GatePasses(rows) == ~(MaxSimilarity(rows) < GateThreshold)

AnswerUsableAlways(answer) == TRUE

\* line 378, negated: the generated answer is neither None nor empty
AnswerUsable(answer) == answer.ok /\ answer.text # <<>>

ConfidenceByMax(rows) ==
    IF MaxSimilarity(rows) >= HighThreshold THEN "high"
    ELSE IF MaxSimilarity(rows) >= MediumThreshold THEN "medium"
    ELSE "low"

\* lines 388-394; sum(...)/len(...) >= t is compared as sum >= t * len
Confidence(rows) ==
    LET total == SumSeq([i \in DOMAIN rows |-> rows[i].similarity_score]) IN
    IF total >= HighThreshold * Len(rows) THEN "high"
    ELSE IF total >= MediumThreshold * Len(rows) THEN "medium"
    ELSE "low"

\* sorted(seq, key=...): seq in the order of the keys, elements of equal
\* key in the order they had (keys[i] is the key of seq[i])
StableSort(seq, keys) ==
    LET rank(i) == 1 + Cardinality({j \in DOMAIN seq :
                        keys[j] < keys[i] \/ (keys[j] = keys[i] /\ j < i)})
    IN [n \in DOMAIN seq |-> seq[CHOOSE i \in DOMAIN seq : rank(i) = n]]

\* lines 448-462: quote is a near-duplicate of one of existing_quotes
IsDuplicate(quote, existing_quotes) ==
    \E n \in DOMAIN existing_quotes :
        LET existing_quote == existing_quotes[n]
            shorter == Min(Len(quote), Len(existing_quote))
            longer == Max(Len(quote), Len(existing_quote))
            common_chars == Cardinality({i \in DOMAIN quote :
                                \E k \in DOMAIN existing_quote : existing_quote[k] = quote[i]})
        IN /\ shorter > 0 /\ longer > 0
           /\ \/ Contains(existing_quote, quote)
              \/ Contains(quote, existing_quote)
              \/ common_chars * 10 > shorter * 8

\* lines 446-465: the quotes of a further chunk joined to those of the group
RECURSIVE MergeQuotes(_, _)
MergeQuotes(existing_quotes, relevant_quotes) ==
    IF relevant_quotes = <<>> THEN existing_quotes
    ELSE MergeQuotes(IF IsDuplicate(Head(relevant_quotes), existing_quotes)
                     THEN existing_quotes
                     ELSE Append(existing_quotes, Head(relevant_quotes)),
                     Tail(relevant_quotes))

\* settings of the call of _extract_quotes at line 419, and the cap of line 468
MaxQuotes == 2
MaxQuoteLength == 220
MaxGroupQuotes == 3

CapQuotesNone(quotes) == quotes

\* lines 467-471
CapQuotes(quotes) ==
    IF Len(quotes) > MaxGroupQuotes
    THEN Prefix(StableSort(quotes, [i \in DOMAIN quotes |-> Len(quotes[i])]), MaxGroupQuotes)
    ELSE quotes

\* lines 432-477: sources_map after a chunk with relevant quotes
AddToSources(sources_map, chunk, relevant_quotes) ==
    LET at == {k \in DOMAIN sources_map :
                    /\ sources_map[k].document_id = chunk.document_id
                    /\ sources_map[k].heading = chunk.heading}
    IN IF at = {}
       THEN Append(sources_map,
                [document_id |-> chunk.document_id,
                 document_filename |-> chunk.document_filename,
                 heading |-> chunk.heading,
                 quotes |-> relevant_quotes,
                 chunk_index |-> chunk.chunk_index,
                 similarity_score |-> chunk.similarity_score])
       ELSE [k \in DOMAIN sources_map |->
                IF k \in at
                THEN [sources_map[k] EXCEPT
                        !.quotes = CapQuotes(MergeQuotes(@, relevant_quotes)),
                        !.similarity_score = Max(@, chunk.similarity_score)]
                ELSE sources_map[k]]

\* lines 419-430: the quotes of a chunk that support the answer
RelevantQuotes(chunk, answer_keywords) ==
    SelectSeq(ExtractQuotes(chunk.text, MaxQuotes, MaxQuoteLength),
              LAMBDA quote : QuoteIsRelevant(quote, answer_keywords))

\* lines 428-477, one turn of the loop
SourcesAfter(sources_map, chunk, relevant_quotes) ==
    IF relevant_quotes = <<>> THEN sources_map
    ELSE AddToSources(sources_map, chunk, relevant_quotes)

\* lines 408-477: sources_map, kept in the order its keys were inserted,
\* after the loop has gone through rows[n..]
RECURSIVE SourcesMap(_, _, _, _)
SourcesMap(rows, n, answer_keywords, sources_map) ==
    IF n > Len(rows) THEN sources_map
    ELSE SourcesMap(rows, n + 1, answer_keywords,
            SourcesAfter(sources_map, rows[n], RelevantQuotes(rows[n], answer_keywords)))

SortedSourcesAscending(sources_map) ==
    StableSort(sources_map, [i \in DOMAIN sources_map |-> sources_map[i].similarity_score])

\* lines 480-484
SortedSources(sources_map) ==
    StableSort(sources_map, [i \in DOMAIN sources_map |-> 0 - sources_map[i].similarity_score])

\* lines 487-495
Citations(sorted_sources) ==
    [i \in DOMAIN sorted_sources |->
        [document_id |-> sorted_sources[i].document_id,
         document_filename |-> sorted_sources[i].document_filename,
         heading |-> sorted_sources[i].heading,
         chunk_index |-> sorted_sources[i].chunk_index]]

\* lines 499-507
Sources(sorted_sources) ==
    [i \in DOMAIN sorted_sources |->
        [document_id |-> sorted_sources[i].document_id,
         filename |-> sorted_sources[i].document_filename,
         heading |-> sorted_sources[i].heading,
         quotes |-> sorted_sources[i].quotes]]

\* what a call hands back; NoOut before any call
NoOut ==
    [op |-> "none", company_id |-> "A", top_k |-> 0, document_id |-> None,
     raised |-> FALSE, path |-> "none", rows |-> <<>>,
     llm |-> [kind |-> "none", text |-> <<>>], llm_called |-> FALSE,
     answer |-> <<>>, citations |-> <<>>, sources |-> <<>>,
     confidence |-> "none", used_chunks |-> 0]

\* lines 387-509: what answer_question returns for a usable answer
Generated(rows, cleaned_answer, sorted_sources) ==
    [llm_called |-> TRUE, answer |-> cleaned_answer,
     citations |-> Citations(sorted_sources), sources |-> Sources(sorted_sources),
     confidence |-> Confidence(rows), used_chunks |-> Len(rows)]

\* lines 397-484
Grounded(rows, cleaned_answer) ==
    Generated(rows, cleaned_answer,
              SortedSources(SourcesMap(rows, 1, ExtractAnswerKeywords(cleaned_answer), <<>>)))

AnsweredRaw(rows, answer) ==
    IF ~AnswerUsable(answer)
    THEN [llm_called |-> TRUE, answer |-> MsgGenerationError, citations |-> <<>>,
          sources |-> <<>>, confidence |-> "error", used_chunks |-> 0]
    ELSE Grounded(rows, answer.text)

\* lines 378-509, answer_question once generate has returned
Answered(rows, answer) ==
    IF ~AnswerUsable(answer)
    THEN [llm_called |-> TRUE, answer |-> MsgGenerationError, citations |-> <<>>,
          sources |-> <<>>, confidence |-> "error", used_chunks |-> 0]
    ELSE Grounded(rows, CleanAnswerText(answer.text))

\* rag.py lines 350-509, answer_question after the search has returned rows;
\* llm is what the language-model service does if it is asked
AnswerQuestion(rows, llm) ==
    IF rows = <<>>
    THEN [llm_called |-> FALSE, answer |-> MsgNoInformation, citations |-> <<>>,
          sources |-> <<>>, confidence |-> "none", used_chunks |-> 0]
    ELSE IF ~GatePasses(rows)
    THEN [llm_called |-> FALSE, answer |-> MsgLowRelevance, citations |-> <<>>,
          sources |-> <<>>, confidence |-> "low", used_chunks |-> 0]
    ELSE Answered(rows, Generate(llm))

\* the record of a call of answer_question that returned a
Returned(called, a) ==
    [called EXCEPT !.llm_called = a.llm_called, !.answer = a.answer,
                   !.citations = a.citations, !.sources = a.sources,
                   !.confidence = a.confidence, !.used_chunks = a.used_chunks]

\* what the services a search depends on may do: the embedding of the query
\* (0: None), whether the hybrid query executes, whether the fallback does
SearchEnvs ==
    {<<0, TRUE, TRUE>>, <<WrongDim, TRUE, TRUE>>, <<EmbedDim, TRUE, TRUE>>,
     <<EmbedDim, FALSE, TRUE>>, <<EmbedDim, FALSE, FALSE>>}

\* a store of more chunks of company A than a search takes as candidates:
\* document d1 with RankSize chunks, beside the chunk of d2 of company B
RankTopK == 6
RankTopKs == (1..MaxTopK) \cup {RankTopK}
RankSize == CandidateLimit(RankTopK) + 2
RankStore ==
    ChunkRows([company_id |-> DocCompany("d1")], "d1", ChunksWithMetadata(TextContent(RankSize)),
              [i \in 1..RankSize |-> EmbedDim], 1)
    \cup SeedRowsOf("d2")

\* the scores of the large store for a query: the semantic score falls
\* from chunk to chunk of d1, with a tie at each candidate limit, and the
\* chunks at the positions boosted match the words of the query
RankSem(pos) ==
    900 - 10 * pos + (IF pos \in {CandidateLimit(k) : k \in RankTopKs} THEN 10 ELSE 0)
RankScore(boosted) ==
    [c \in RankStore |->
        IF c.document_id = "d1"
        THEN [sem |-> RankSem(c.pos), lex |-> IF c.pos \in boosted THEN 1000 ELSE 0]
        ELSE [sem |-> 950, lex |-> 1000]]
RankScores ==
    {RankScore({p, q}) : p, q \in 0..(RankSize - 1)} \cup {RankScore({})}

\* the scores the chunks of the store may have for a query
ScoresOf(chs) ==
    IF chs = RankStore THEN RankScores
    ELSE {sc \in [SeedRows -> ScorePairs] : \A r \in SeedRows \ chs : sc[r] = DefaultScore}

\* a call of perform_semantic_search (the search endpoint)
Search(company_id, top_k, document_id) ==
    /\ out.op = "none"
    /\ \E sc \in ScoresOf(chunks), env \in SearchEnvs :
        \E found \in PerformSemanticSearch(chunks, documents, sc, company_id, top_k,
                                           document_id, env[1], env[2], env[3]) :
            /\ scores' = sc
            /\ out' = [NoOut EXCEPT !.op = "search", !.company_id = company_id,
                          !.top_k = top_k, !.document_id = document_id,
                          !.raised = found.raised, !.path = found.path,
                          !.rows = found.rows]
    /\ UNCHANGED <<documents, chunks>>
    /\ UNCHANGED ixvars

\* a call of answer_question (the chat endpoint); top_k = NoTopK: not given
Answer(company_id, top_k) ==
    /\ out.op = "none"
    /\ \E sc \in ScoresOf(chunks), env \in SearchEnvs, llm \in LLMOutcomes :
        \E found \in PerformSemanticSearch(chunks, documents, sc, company_id,
                                           IF top_k = NoTopK THEN RAG_TOP_K ELSE top_k,
                                           NoFilter, env[1], env[2], env[3]) :
            LET called == [NoOut EXCEPT !.op = "answer", !.company_id = company_id,
                              !.top_k = top_k, !.raised = found.raised,
                              !.path = found.path, !.rows = found.rows, !.llm = llm]
            IN /\ scores' = sc
               /\ out' = IF found.raised THEN called
                         ELSE Returned(called, AnswerQuestion(found.rows, llm))
    /\ UNCHANGED <<documents, chunks>>
    /\ UNCHANGED ixvars

\* ------------------------------------------------------------ chunking
\* str.split and re.split: the pieces of t between its separators; sep[i] is
\* the length of the separator that starts at position i, 0 when none does
RECURSIVE Pieces(_, _, _, _)
Pieces(t, sep, start, i) ==
    IF i > Len(t) THEN <<SubSeq(t, start, Len(t))>>
    ELSE IF sep[i] = 0 THEN Pieces(t, sep, start, i + 1)
    ELSE <<SubSeq(t, start, i - 1)>> \o Pieces(t, sep, i + sep[i], i + sep[i])

\* glue.join(parts)
RECURSIVE Join(_, _)
Join(parts, glue) ==
    IF parts = <<>> THEN <<>>
    ELSE IF Len(parts) = 1 THEN parts[1]
    ELSE parts[1] \o glue \o Join(Tail(parts), glue)

\* t[-n:], which is all of t when n is 0
Last(t, n) == IF n = 0 \/ n >= Len(t) THEN t ELSE SubSeq(t, Len(t) - n + 1, Len(t))

\* chunking.py lines 76-90, the loop over the words of a sentence that is
\* longer than chunk_size; st holds chunks, current_chunk and current_length
\* (what lines 86-88 assign is overwritten by lines 89-90)
RECURSIVE AddWords(_, _, _)
AddWords(st, words, chunk_size) ==
    IF words = <<>> THEN st
    ELSE AddWords(
            IF st.current_length + Len(Head(words)) + 1 <= chunk_size
            THEN [st EXCEPT !.current_chunk = Append(@, Head(words)),
                            !.current_length = @ + Len(Head(words)) + 1]
            ELSE [chunks |-> IF st.current_chunk # <<>>
                             THEN Append(st.chunks, Join(st.current_chunk, <<" ">>))
                             ELSE st.chunks,
                  current_chunk |-> <<Head(words)>>,
                  current_length |-> Len(Head(words)) + 1],
            Tail(words), chunk_size)

\* lines 58-90, the loop over the sentences of a paragraph that is longer
\* than chunk_size
RECURSIVE AddSentences(_, _, _, _)
AddSentences(st, sentences, chunk_size, overlap) ==
    IF sentences = <<>> THEN st
    ELSE LET sentence == Head(sentences)
             joined == Join(st.current_chunk, <<" ">>)
         IN AddSentences(
                IF st.current_length + Len(sentence) + 1 <= chunk_size
                THEN [st EXCEPT !.current_chunk = Append(@, sentence),
                                !.current_length = @ + Len(sentence) + 1]
                ELSE IF st.current_chunk # <<>>
                THEN IF Len(joined) > overlap
                     THEN [chunks |-> Append(st.chunks, joined),
                           current_chunk |-> <<Last(joined, overlap), sentence>>,
                           current_length |-> overlap + Len(sentence) + 1]
                     ELSE [chunks |-> Append(st.chunks, joined),
                           current_chunk |-> <<sentence>>,
                           current_length |-> Len(sentence) + 1]
                ELSE AddWords(st, SelectSeq(Pieces(sentence,
                                    [i \in DOMAIN sentence |-> SpaceRun(sentence, i)], 1, 1),
                                    LAMBDA word : word # <<>>), chunk_size),
                Tail(sentences), chunk_size, overlap)

\* lines 35-99, the loop over the paragraphs
RECURSIVE AddParagraphs(_, _, _, _)
AddParagraphs(st, paragraphs, chunk_size, overlap) ==
    IF paragraphs = <<>> THEN st
    ELSE LET para == Strip(Head(paragraphs))
             saved == IF st.current_chunk # <<>>
                      THEN Append(st.chunks, Join(st.current_chunk, <<"\n", "\n">>))
                      ELSE st.chunks
         IN AddParagraphs(
                IF para = <<>> THEN st
                ELSE IF st.current_length + Len(para) + 2 <= chunk_size
                THEN [st EXCEPT !.current_chunk = Append(@, para),
                                !.current_length = @ + Len(para) + 2]
                ELSE IF Len(para) > chunk_size
                THEN AddSentences([chunks |-> saved, current_chunk |-> <<>>, current_length |-> 0],
                        Pieces(para, [i \in DOMAIN para |->
                                        IF i > 1 /\ para[i - 1] \in {".", "!", "?"}
                                        THEN SpaceRun(para, i) ELSE 0], 1, 1),
                        chunk_size, overlap)
                ELSE IF saved # <<>> /\ Len(saved[Len(saved)]) > overlap
                THEN [chunks |-> saved,
                      current_chunk |-> <<Last(saved[Len(saved)], overlap), para>>,
                      current_length |-> overlap + Len(para) + 2]
                ELSE [chunks |-> saved, current_chunk |-> <<para>>, current_length |-> Len(para)],
                Tail(paragraphs), chunk_size, overlap)

SplitOversizedNone(chunk, chunk_size, overlap) == <<chunk>>

\* lines 108-117: a chunk cut into pieces of at most chunk_size characters
RECURSIVE SplitOversized(_, _, _)
SplitOversized(chunk, chunk_size, overlap) ==
    IF Len(chunk) > chunk_size
    THEN <<Prefix(chunk, chunk_size)>>
            \o SplitOversized(SubSeq(chunk, chunk_size - overlap + 1, Len(chunk)), chunk_size, overlap)
    ELSE IF chunk # <<>> THEN <<chunk>> ELSE <<>>

\* chunking.py lines 6-119, chunk_text
chunk_text(text, chunk_size, overlap) ==
    IF Strip(text) = <<>> THEN <<>>
    ELSE LET stripped == Strip(Collapse(text, "\n", 3, <<"\n", "\n">>))
             st == AddParagraphs([chunks |-> <<>>, current_chunk |-> <<>>, current_length |-> 0],
                       Pieces(stripped, [i \in DOMAIN stripped |->
                                IF OccursAt(stripped, i, <<"\n", "\n">>) THEN 2 ELSE 0], 1, 1),
                       chunk_size, overlap)
             all_chunks == IF st.current_chunk = <<>> THEN st.chunks
                       ELSE Append(st.chunks,
                                Join(st.current_chunk,
                                     IF Contains(st.current_chunk[1], <<"\n", "\n">>)
                                     THEN <<"\n", "\n">> ELSE <<" ">>))
             final_chunks == Join([n \in DOMAIN all_chunks |->
                                    SplitOversized(all_chunks[n], chunk_size, overlap)], <<>>)
         IN SelectSeq([n \in DOMAIN final_chunks |-> Strip(final_chunks[n])],
                      LAMBDA c : c # <<>>)

\* ------------------------------------------------------------ headings
\* the position after the longest match of (\.\d+)* from position i of t
RECURSIVE Outline(_, _)
Outline(t, i) ==
    IF i <= Len(t) /\ t[i] = "." /\ Run(t, i + 1, Digits, TRUE) > 0
    THEN Outline(t, i + 1 + Run(t, i + 1, Digits, TRUE))
    ELSE i

\* the length of the match of ^\d+(\.\d+)*\s+ at the start of t, 0 when it
\* does not match
NumberingPrefix(t) ==
    LET after == Outline(t, Run(t, 1, Digits, TRUE) + 1) IN
    IF Run(t, 1, Digits, TRUE) > 0 /\ SpaceRun(t, after) > 0
    THEN after - 1 + SpaceRun(t, after)
    ELSE 0

\* heading_detection.py lines 7-42
is_heading(line) ==
    LET stripped == Strip(line) IN
    /\ stripped # <<>>
    /\ \/ NumberingPrefix(stripped) > 0
       \/ stripped[Len(stripped)] = ":" /\ Len(stripped) < 120
       \/ /\ Len(stripped) < 80
          /\ \E i \in DOMAIN stripped : stripped[i] \in UpperLetters
          /\ \A i \in DOMAIN stripped : stripped[i] \in UpperLetters \cup Whitespace

\* lines 65-72: the label kept for a heading line
HeadingLabel(line) ==
    LET heading_clean == Strip(SubSeq(line, NumberingPrefix(line) + 1, Len(line)))
        without_colon == IF heading_clean # <<>> /\ heading_clean[Len(heading_clean)] = ":"
                         THEN Strip(SubSeq(heading_clean, 1, Len(heading_clean) - 1))
                         ELSE heading_clean
    IN IF without_colon # <<>> THEN without_colon ELSE Strip(line)

\* lines 55-75, the loop over the lines: heading_map as the sequence of its
\* entries, by growing line start
RECURSIVE HeadingsFrom(_, _, _)
HeadingsFrom(lines, char_pos, current_heading) ==
    IF lines = <<>> THEN <<>>
    ELSE LET heading == IF is_heading(Head(lines)) THEN <<HeadingLabel(Head(lines))>>
                        ELSE current_heading
         IN <<[line_start |-> char_pos, heading |-> heading]>>
                \o HeadingsFrom(Tail(lines), char_pos + Len(Head(lines)) + 1, heading)

\* lines 45-77
extract_headings(text) ==
    HeadingsFrom(Pieces(text, [i \in DOMAIN text |-> IF text[i] = "\n" THEN 1 ELSE 0], 1, 1),
                 0, NoHeading)

find_heading_first(heading_map, position) ==
    LET valid_positions == {k \in DOMAIN heading_map : heading_map[k].line_start <= position}
    IN IF valid_positions = {} THEN NoHeading
       ELSE heading_map[CHOOSE k \in valid_positions : \A j \in valid_positions : k <= j].heading

\* lines 80-100
find_heading_for_position(heading_map, position) ==
    LET valid_positions == {k \in DOMAIN heading_map : heading_map[k].line_start <= position}
    IN IF valid_positions = {} THEN NoHeading
       ELSE heading_map[CHOOSE k \in valid_positions : \A j \in valid_positions : j <= k].heading

\* str.find(p, start), 0-based, -1 when p does not occur from start on
Find(t, p, start) ==
    LET at == {i \in start..Len(t) : OccursAt(t, i + 1, p)} IN
    IF at = {} THEN 0 - 1 ELSE CHOOSE i \in at : \A j \in at : i <= j

\* lines 133-149, the loop over the chunks
RECURSIVE Located(_, _, _, _)
Located(text, heading_map, chunk_list, search_start) ==
    IF chunk_list = <<>> THEN <<>>
    ELSE LET found == Find(text, Head(chunk_list), search_start)
             chunk_start == IF found = 0 - 1 THEN search_start ELSE found
         IN <<[chunk |-> Head(chunk_list), char_start |-> chunk_start,
               char_end |-> chunk_start + Len(Head(chunk_list)),
               heading |-> find_heading_for_position(heading_map, chunk_start)]>>
                \o Located(text, heading_map, Tail(chunk_list), chunk_start + 1)

\* lines 103-151
chunk_text_with_headings(text, chunk_size, overlap) ==
    IF Strip(text) = <<>> THEN <<>>
    ELSE Located(text, extract_headings(text), chunk_text(text, chunk_size, overlap), 0)

\* ------------------------------------------------------------ the indexer's behaviours
Init ==
    /\ documents \in { f \in [DocIds -> [company_id : Companies,
                                         text_extracted : UNION {DocTexts(d) : d \in DocIds},
                                         index_status : {NOT_INDEXED},
                                         index_error : {None}]] :
                       \A d \in DocIds : /\ f[d].company_id = DocCompany(d)
                                         /\ f[d].text_extracted \in DocTexts(d) }
    /\ chunks = {}
    /\ pc = [d \in AllIds |-> "idle"]
    /\ session = [d \in AllIds |-> NoSession]
    /\ result = [d \in AllIds |-> NoResult]
    /\ passes = [d \in AllIds |-> 0]
    /\ ncalls = 0
    /\ scores = [r \in SeedRows |-> DefaultScore]
    /\ out = NoOut

Next ==
    \/ \E d \in AllIds, c \in Companies : Begin(d, c)
    \/ \E d \in DocIds : CommitIndexing(d)
    \/ \E d \in DocIds : DeleteChunks(d)
    \/ \E d \in DocIds : ChunkAndEmbed(d)
    \/ \E d \in DocIds : CommitNoChunks(d)
    \/ \E d \in DocIds : CommitEmbedFailed(d)
    \/ \E d \in DocIds : CommitChunks(d)
    \/ \E d \in DocIds : CommitStatus(d)
    \/ \E d \in DocIds : ExceptionRaised(d)

Spec == Init /\ [][Next]_vars

\* ------------------------------------------------------------ the queries' behaviours
\* a seeded store: some of the seeded documents are indexed, the others
\* are not
QInit ==
    /\ chunks \in {UNION {SeedRowsOf(d) : d \in indexed} : indexed \in SUBSET DocIds}
    /\ documents = [d \in DocIds |->
            [company_id |-> DocCompany(d), text_extracted |-> SeedText(d),
             index_status |-> IF \E c \in chunks : c.document_id = d
                              THEN INDEXED ELSE NOT_INDEXED,
             index_error |-> None]]
    /\ pc = [d \in AllIds |-> "idle"]
    /\ session = [d \in AllIds |-> NoSession]
    /\ result = [d \in AllIds |-> NoResult]
    /\ passes = [d \in AllIds |-> IF \E c \in chunks : c.document_id = d THEN 1 ELSE 0]
    /\ ncalls = 0
    /\ scores = [r \in SeedRows |-> DefaultScore]
    /\ out = NoOut

QNext ==
    \/ \E company_id \in Companies, top_k \in 1..MaxTopK, document_id \in AllIds \cup {NoFilter} :
            Search(company_id, top_k, document_id)
    \/ \E company_id \in Companies, top_k \in (1..MaxTopK) \cup {NoTopK} :
            Answer(company_id, top_k)

SpecQuery == QInit /\ [][QNext]_vars

\* ------------------------------------------------------------ searches of a large store
RInit ==
    /\ chunks = RankStore
    /\ documents = [d \in DocIds |->
            [company_id |-> DocCompany(d), text_extracted |-> IF d = "d1" THEN TextContent(RankSize)
                                                 ELSE SeedText(d),
             index_status |-> IF \E c \in chunks : c.document_id = d
                              THEN INDEXED ELSE NOT_INDEXED,
             index_error |-> None]]
    /\ pc = [d \in AllIds |-> "idle"]
    /\ session = [d \in AllIds |-> NoSession]
    /\ result = [d \in AllIds |-> NoResult]
    /\ passes = [d \in AllIds |-> IF \E c \in chunks : c.document_id = d THEN 1 ELSE 0]
    /\ ncalls = 0
    /\ scores = RankScore({})
    /\ out = NoOut

RNext ==
    \E company_id \in Companies, top_k \in RankTopKs, document_id \in {NoFilter, "d1", "d2"} :
        Search(company_id, top_k, document_id)

SpecRank == RInit /\ [][RNext]_vars

\* ------------------------------------------------------------ the chunker's behaviours
\* the texts and the settings a call of chunk_text_with_headings is given:
\* texts of capitals, full stops, spaces and line ends, and every chunk_size
\* with every overlap below it
MaxTextLen == 5
MaxChunkSize == 3
ChunkAlphabet == {"A", ".", " ", "\n"}
ChunkInputs ==
    {[op |-> "none", text |-> t, chunk_size |-> chunk_size, overlap |-> overlap,
      chunks |-> <<>>, tuples |-> <<>>] :
        t \in UNION {[1..n -> ChunkAlphabet] : n \in 0..MaxTextLen},
        chunk_size \in 1..MaxChunkSize, overlap \in 0..(MaxChunkSize - 1)}

CInit ==
    /\ out \in {call \in ChunkInputs : call.overlap < call.chunk_size}
    /\ chunks = {}
    /\ documents = [d \in DocIds |->
            [company_id |-> DocCompany(d), text_extracted |-> TextNull,
             index_status |-> NOT_INDEXED, index_error |-> None]]
    /\ pc = [d \in AllIds |-> "idle"]
    /\ session = [d \in AllIds |-> NoSession]
    /\ result = [d \in AllIds |-> NoResult]
    /\ passes = [d \in AllIds |-> 0]
    /\ ncalls = 0
    /\ scores = [r \in SeedRows |-> DefaultScore]

\* a call of chunk_text_with_headings, and of chunk_text, on the text given
Chunk ==
    /\ out.op = "none"
    /\ out' = [out EXCEPT !.op = "chunk",
                          !.chunks = chunk_text(out.text, out.chunk_size, out.overlap),
                          !.tuples = chunk_text_with_headings(out.text, out.chunk_size,
                                                              out.overlap)]
    /\ UNCHANGED <<documents, chunks, scores>>
    /\ UNCHANGED ixvars

CNext == Chunk

SpecChunk == CInit /\ [][CNext]_vars

\* ------------------------------------------------------------ the heading map's behaviours
\* the texts extract_headings is given: lines of digits, full stops, spaces,
\* capitals and colons
MaxHeadingLen == 5
HeadingAlphabet == {"1", ".", " ", "A", ":", "\n"}
HeadingInputs ==
    {[op |-> "none", text |-> t, position |-> 0, accepted |-> <<>>,
      heading_map |-> <<>>, heading |-> NoHeading] :
        t \in UNION {[1..n -> HeadingAlphabet] : n \in 0..MaxHeadingLen}}

HInit ==
    /\ out \in HeadingInputs
    /\ chunks = {}
    /\ documents = [d \in DocIds |->
            [company_id |-> DocCompany(d), text_extracted |-> TextNull,
             index_status |-> NOT_INDEXED, index_error |-> None]]
    /\ pc = [d \in AllIds |-> "idle"]
    /\ session = [d \in AllIds |-> NoSession]
    /\ result = [d \in AllIds |-> NoResult]
    /\ passes = [d \in AllIds |-> 0]
    /\ ncalls = 0
    /\ scores = [r \in SeedRows |-> DefaultScore]

\* the lines of a text, as text.split('\n') of line 56 gives them
Lines(text) == Pieces(text, [i \in DOMAIN text |-> IF text[i] = "\n" THEN 1 ELSE 0], 1, 1)

\* a call of find_heading_for_position on the map extract_headings gives
\* for the text; accepted[n] is what is_heading says of line n
FindHeading(position) ==
    /\ out.op = "none"
    /\ out' = [out EXCEPT !.op = "heading", !.position = position,
                          !.accepted = [n \in DOMAIN Lines(out.text) |->
                                            is_heading(Lines(out.text)[n])],
                          !.heading_map = extract_headings(out.text),
                          !.heading = find_heading_for_position(extract_headings(out.text),
                                                                position)]
    /\ UNCHANGED <<documents, chunks, scores>>
    /\ UNCHANGED ixvars

HNext == \E position \in 0..(MaxHeadingLen + 1) : FindHeading(position)

SpecHeading == HInit /\ [][HNext]_vars

\* ------------------------------------------------------------ the document endpoints
\* a document id that is no UUID
BadId == "not-a-uuid"
RequestIds == AllIds \cup {BadId}

\* the JSON body of a response; the columns of a document that are not
\* modelled (file name, size, upload status, text preview) are left out
NoBody == [status |-> None, index_status |-> None, count |-> 0]

\* no request made yet; status_code 0: no response yet
NoResponse ==
    [op |-> "none", company_id |-> "A", document_id |-> None,
     status_code |-> 0, detail |-> None, body |-> NoBody]

HTTPException(request, status_code, detail) ==
    [request EXCEPT !.status_code = status_code, !.detail = detail]

Ok(request, body) == [request EXCEPT !.status_code = 200, !.body = body]

DocumentLookupForbidden(docs, company_id, document_id) ==
    IF document_id = BadId
    THEN [status_code |-> 400, detail |-> "Invalid document ID format"]
    ELSE IF document_id \notin DOMAIN docs
    THEN [status_code |-> 404, detail |-> "Document not found"]
    ELSE IF docs[document_id].company_id # company_id
    THEN [status_code |-> 403, detail |-> "Access denied"]
    ELSE [status_code |-> 200, detail |-> None]

\* lines 255-276 of get_document, repeated word for word as lines 317-338 of
\* index_document_endpoint and lines 386-408 of delete_document: parse the
\* id, load the row, compare its company with the user's
DocumentLookup(docs, company_id, document_id) ==
    IF document_id = BadId
    THEN [status_code |-> 400, detail |-> "Invalid document ID format"]
    ELSE IF document_id \notin DOMAIN docs
    THEN [status_code |-> 404, detail |-> "Document not found"]
    ELSE IF docs[document_id].company_id # company_id
    THEN [status_code |-> 404, detail |-> "Document not found"]
    ELSE [status_code |-> 200, detail |-> None]

\* GET /documents/{document_id}
GetDocument(company_id, document_id) ==
    /\ out.op = "none"
    /\ LET request == [NoResponse EXCEPT !.op = "get", !.company_id = company_id,
                                         !.document_id = document_id]
           found == DocumentLookup(documents, company_id, document_id)
       IN out' = IF found.status_code # 200
                 THEN HTTPException(request, found.status_code, found.detail)
                 ELSE Ok(request, [status |-> None,
                                   index_status |-> documents[document_id].index_status,
                                   count |-> 0])
    /\ UNCHANGED <<documents, chunks, scores>>
    /\ UNCHANGED ixvars

\* POST /documents/{document_id}/index up to the call of index_document
IndexDocumentEndpoint(company_id, document_id) ==
    /\ out.op = "none"
    /\ LET request == [NoResponse EXCEPT !.op = "index", !.company_id = company_id,
                                         !.document_id = document_id]
           found == DocumentLookup(documents, company_id, document_id)
       IN out' = IF found.status_code # 200
                 THEN HTTPException(request, found.status_code, found.detail)
                 ELSE request
    /\ UNCHANGED <<documents, chunks, scores>>
    /\ UNCHANGED ixvars

\* the endpoint's request is waiting for index_document on d
Indexing(d) == out.op = "index" /\ out.status_code = 0 /\ out.document_id = d

\* lines 341-345: the endpoint calls index_document for the user's company
IndexDocumentCall(d) ==
    /\ Indexing(d)
    /\ ~result[d].returned
    /\ Begin(d, out.company_id)

\* lines 347-361: refresh the row, answer with what index_document returned
IndexDocumentRespond(d) ==
    /\ Indexing(d)
    /\ result[d].returned
    /\ out' = IF result[d].success
              THEN Ok(out, [status |-> "indexed",
                            index_status |-> documents[d].index_status,
                            count |-> result[d].chunks_created])
              ELSE HTTPException(out, 500, IF result[d].error # None
                                           THEN result[d].error
                                           ELSE "Indexing failed")
    /\ UNCHANGED <<documents, chunks, scores>>
    /\ UNCHANGED ixvars

\* DELETE /documents/{document_id}; committed: whether the database executes
\* the two deletions and the commit, or raises and is rolled back
DeleteDocument(company_id, document_id, committed) ==
    /\ out.op = "none"
    /\ LET request == [NoResponse EXCEPT !.op = "delete", !.company_id = company_id,
                                         !.document_id = document_id]
           found == DocumentLookup(documents, company_id, document_id)
           chunks_deleted == {c \in chunks : c.document_id = document_id}
       IN IF found.status_code # 200
          THEN /\ out' = HTTPException(request, found.status_code, found.detail)
               /\ UNCHANGED <<documents, chunks>>
          ELSE IF committed
          THEN /\ chunks' = chunks \ chunks_deleted
               /\ documents' = [d \in DOMAIN documents \ {document_id} |-> documents[d]]
               /\ out' = Ok(request, [status |-> "deleted", index_status |-> None,
                                      count |-> Cardinality(chunks_deleted)])
          ELSE /\ out' = HTTPException(request, 500, "Failed to delete document")
               /\ UNCHANGED <<documents, chunks>>
    /\ UNCHANGED scores
    /\ UNCHANGED ixvars

\* the seeded documents, some of those with text indexed; no request made yet
AInit ==
    /\ chunks \in {UNION {SeedRowsOf(d) : d \in indexed} : indexed \in SUBSET {"d1", "d2"}}
    /\ documents \in { f \in [DocIds -> [company_id : Companies,
                                         text_extracted : UNION {DocTexts(d) : d \in DocIds},
                                         index_status : {NOT_INDEXED, INDEXED},
                                         index_error : {None}]] :
                       \A d \in DocIds :
                          /\ f[d].company_id = DocCompany(d)
                          /\ f[d].text_extracted \in DocTexts(d)
                          /\ f[d].index_status = INDEXED <=> \E c \in chunks : c.document_id = d }
    /\ pc = [d \in AllIds |-> "idle"]
    /\ session = [d \in AllIds |-> NoSession]
    /\ result = [d \in AllIds |-> NoResult]
    /\ passes = [d \in AllIds |-> IF \E c \in chunks : c.document_id = d THEN 1 ELSE 0]
    /\ ncalls = 0
    /\ scores = [r \in SeedRows |-> DefaultScore]
    /\ out = NoResponse

ANext ==
    \/ \E company_id \in Companies, document_id \in RequestIds :
            GetDocument(company_id, document_id)
    \/ \E company_id \in Companies, document_id \in RequestIds :
            IndexDocumentEndpoint(company_id, document_id)
    \/ \E d \in DocIds : IndexDocumentCall(d)
    \/ \E d \in DocIds : CommitIndexing(d)
    \/ \E d \in DocIds : DeleteChunks(d)
    \/ \E d \in DocIds : ChunkAndEmbed(d)
    \/ \E d \in DocIds : CommitNoChunks(d)
    \/ \E d \in DocIds : CommitEmbedFailed(d)
    \/ \E d \in DocIds : CommitChunks(d)
    \/ \E d \in DocIds : CommitStatus(d)
    \/ \E d \in DocIds : ExceptionRaised(d)
    \/ \E d \in DocIds : IndexDocumentRespond(d)
    \/ \E company_id \in Companies, document_id \in RequestIds, committed \in BOOLEAN :
            DeleteDocument(company_id, document_id, committed)

SpecApi == AInit /\ [][ANext]_vars

\* ------------------------------------------------------------ the prompt
\* settings.RAG_MAX_CONTEXT_CHARS as shipped; the setting is read from the
\* environment of the deployment
RAG_MAX_CONTEXT_CHARS == 6000

\* a smaller budget a deployment may set, one the seeded chunks exceed
SmallContextChars == 64

\* the budgets configured
ContextBudgets == {SmallContextChars, RAG_MAX_CONTEXT_CHARS}

\* lines 302-306: the header line of a chunk in the context block; the dash
\* of the source is the one character U+2014
ContextHeader(chunk) ==
    <<"\n", "[", "D", "o", "c", "u", "m", "e", "n", "t", ":", " ">>
    \o chunk.document_filename
    \o (IF chunk.heading # NoHeading /\ chunk.heading[1] # <<>>
        THEN <<" ", "U+2014", " ", "S", "e", "c", "t", "i", "o", "n", ":", " ">>
             \o chunk.heading[1]
        ELSE <<>>)
    \o <<"]", "\n">>

\* lines 294-306: the context block of the chunks retrieved
RECURSIVE ContextBlock(_)
ContextBlock(context_chunks) ==
    IF context_chunks = <<>> THEN <<>>
    ELSE ContextHeader(Head(context_chunks)) \o Head(context_chunks).text \o <<"\n">>
         \o ContextBlock(Tail(context_chunks))

\* lines 308-311: the block trimmed to the budget, with the marker
TrimmedContext(context_chunks, max_context_chars) ==
    IF Len(ContextBlock(context_chunks)) > max_context_chars
    THEN Prefix(ContextBlock(context_chunks), max_context_chars)
         \o <<"\n", "[", ".", ".", ".", " ", "c", "o", "n", "t", "e", "x", "t", " ",
              "t", "r", "u", "n", "c", "a", "t", "e", "d", " ", ".", ".", ".", "]">>
    ELSE ContextBlock(context_chunks)

\* ------------------------------------------------------------ the quote extractor's behaviours
\* bounds on the chunk texts quotes are extracted from and on max_length
MaxQuoteText == 5
MaxShortQuote == 3
QuoteAlphabet == {"a", " ", "."}

\* no call made yet on the text drawn
QuoteInputs ==
    {[op |-> "none", chunk_text |-> t, max_quotes |-> 0, max_length |-> 0, quotes |-> <<>>] :
        t \in UNION {[1..n -> QuoteAlphabet] : n \in 0..MaxQuoteText}}

XInit ==
    /\ out \in QuoteInputs
    /\ documents = [d \in DocIds |->
            [company_id |-> DocCompany(d), text_extracted |-> SeedText(d),
             index_status |-> NOT_INDEXED, index_error |-> None]]
    /\ chunks = {}
    /\ pc = [d \in AllIds |-> "idle"]
    /\ session = [d \in AllIds |-> NoSession]
    /\ result = [d \in AllIds |-> NoResult]
    /\ passes = [d \in AllIds |-> 0]
    /\ ncalls = 0
    /\ scores = [r \in SeedRows |-> DefaultScore]

\* a call of _extract_quotes on the text drawn
ExtractQuotesCall(max_quotes, max_length) ==
    /\ out.op = "none"
    /\ out' = [out EXCEPT !.op = "quotes", !.max_quotes = max_quotes,
                          !.max_length = max_length,
                          !.quotes = ExtractQuotes(out.chunk_text, max_quotes, max_length)]
    /\ UNCHANGED <<documents, chunks, scores>>
    /\ UNCHANGED ixvars

XNext ==
    \E max_quotes \in 1..MaxQuotes, max_length \in 1..MaxShortQuote :
        ExtractQuotesCall(max_quotes, max_length)

SpecQuote == XInit /\ [][XNext]_vars

\* ------------------------------------------------------------ claims: indexer
ChunksOf(d) == {c \in chunks : c.document_id = d}

PreconditionErrors ==
    {"Document not found", "Document does not belong to company",
     "Document has no extracted text"}

\* the last call on d has returned and was a pass: it got past the
\* preconditions and set index-status to indexing
PassReturned(d) ==
    /\ pc[d] = "idle"
    /\ result[d].returned
    /\ result[d].error \notin PreconditionErrors

\* the last call on d ended in the exception handler
Raised(d) == result[d].raised_at # None

\* C2: whenever index_document has returned after index-status indexing was
\* set (the commit of line 57 went through), the committed index-status is
\* not indexing, and after an exception it is failed with the error text in
\* index_error.
C2_NeverLeftIndexing ==
    \A d \in DocIds :
        (PassReturned(d) /\ result[d].raised_at # "L57") =>
            /\ documents[d].index_status # INDEXING
            /\ Raised(d) =>
                  /\ documents[d].index_status = FAILED
                  /\ documents[d].index_error = result[d].error

\* C3: the chunk_index values of a document's persisted chunks are exactly
\* 0..n-1, n the number of its persisted chunks.
C3_OrdinalsContiguous ==
    \A d \in DocIds :
        {c.chunk_index : c \in ChunksOf(d)} = 0..(Cardinality(ChunksOf(d)) - 1)

\* the complete generation of the call running (or last run) on d: every row
\* its loop added for the chunks that survived embedding and validation
NewGeneration(d) ==
    ChunkRows(documents[d], d, session[d].chunks_with_metadata,
              session[d].embeddings, passes[d])

\* C4 as claimed: once a document has a chunk set, every later committed state
\* holds that complete set or the complete set of a new generation, never an
\* empty or partial one.
C4_NeverEmptyOrPartial ==
    [][\A d \in DocIds :
          ChunksOf(d) # {} =>
              \/ ChunksOf(d)' = ChunksOf(d)
              \/ /\ ChunksOf(d)' # {}
                 /\ ChunksOf(d)' = NewGeneration(d)']_vars

\* C4 amended: a commit leaves a document's chunk set as it is, empties it
\* (the committed DELETE; it stays empty if the pass then fails), or turns
\* the empty set into the complete new generation; it never commits part of
\* a generation and never adds to a set that is there.
C4_ReplacedWholesale ==
    [][\A d \in DocIds :
          \/ ChunksOf(d)' = ChunksOf(d)
          \/ ChunksOf(d)' = {}
          \/ /\ ChunksOf(d) = {}
             /\ ChunksOf(d)' = NewGeneration(d)]_vars

\* a re-index of an indexed document has run to the end: its DELETE removed a
\* previous generation and its own generation is committed
C4_Witness ==
    \E d \in DocIds :
        /\ pc[d] = "L128"
        /\ session[d].rows_deleted > 0
        /\ ChunksOf(d) = NewGeneration(d)
        /\ ChunksOf(d) # {}

\* C5: index_document reports success if and only if at least one chunk was
\* persisted and the final index-status is indexed.
C5_SuccessIffIndexed ==
    \A d \in DocIds :
        PassReturned(d) =>
            (result[d].success <=>
                /\ result[d].chunks_created >= 1
                /\ documents[d].index_status = INDEXED)

\* C6: a pass that fails without an exception ends in not_indexed exactly when
\* the chunker produced no chunk, and in failed when chunks were produced and
\* every embedding is None; it returns chunks_created = 0 and leaves no chunk
\* of the document persisted.
C6_FailureOutcomes ==
    \A d \in DocIds :
        (PassReturned(d) /\ ~Raised(d) /\ ~result[d].success) =>
            /\ documents[d].index_status = NOT_INDEXED <=> result[d].produced = 0
            /\ (result[d].produced > 0
                  /\ result[d].failed_count = result[d].produced) =>
                   documents[d].index_status = FAILED
            /\ result[d].chunks_created = 0
            /\ ChunksOf(d) = {}

\* both failures have happened: a blank text gave no chunk, and every
\* embedding of a chunked text was None
C6_Witness ==
    /\ \E d \in DocIds :
          /\ PassReturned(d) /\ ~Raised(d) /\ ~result[d].success
          /\ result[d].produced = 0
    /\ \E d \in DocIds :
          /\ PassReturned(d) /\ ~Raised(d) /\ ~result[d].success
          /\ result[d].produced > 0
          /\ result[d].failed_count = result[d].produced

\* C7: with at most one call per document at a time, the persisted chunks of
\* a document all belong to one generation.
C7_OneGeneration ==
    \A d \in DocIds : \A c1, c2 \in ChunksOf(d) : c1.pass = c2.pass

\* a second generation is persisted after the first was deleted
C7_Witness ==
    \E d \in DocIds :
        /\ pc[d] = "L128"
        /\ session[d].rows_deleted > 0
        /\ \E c \in ChunksOf(d) : c.pass = passes[d]

\* the call (d, c) breaks a precondition
BadCall(d, c) ==
    \/ d \notin DOMAIN documents
    \/ documents[d].company_id # c
    \/ documents[d].text_extracted.kind \in {"null", "empty"}

\* C8: a call for a document that does not exist, belongs to another company
\* or has no extracted text returns a failure at once and leaves every
\* document row and every chunk as it was.
C8_BadCallChangesNothing ==
    [][\A d \in AllIds, c \in Companies :
          (BadCall(d, c) /\ Begin(d, c)) =>
              /\ result'[d].returned /\ ~result'[d].success
              /\ result'[d].chunks_created = 0
              /\ pc'[d] = "idle"
              /\ documents' = documents
              /\ chunks' = chunks]_vars

\* a call of the other company was refused on an indexed document, and a call
\* on an unknown id was refused
C8_Witness ==
    /\ result[NoDocId].error = "Document not found"
    /\ \E d \in DocIds :
          /\ result[d].error = "Document does not belong to company"
          /\ ChunksOf(d) # {}
          /\ documents[d].index_status = INDEXED

\* ------------------------------------------------------------ claims on retrieval
\* the call returned rows: the search raised nothing and found something
Retrieved == out.op \in {"search", "answer"} /\ ~out.raised /\ out.rows # <<>>

\* the stored chunks a returned row stands for
ChunksNamed(row) == {c \in chunks : ChunkId(c) = row.chunk_id}

\* C1: a search for a company returns only chunks of that company, on the
\* hybrid and on the fallback path alike, and returns nothing when the
\* document filter names a document of another company.
C1_TenantIsolation ==
    out.op \in {"search", "answer"} =>
        /\ \A i \in DOMAIN out.rows :
              /\ ChunksNamed(out.rows[i]) # {}
              /\ \A c \in ChunksNamed(out.rows[i]) : c.company_id = out.company_id
        /\ (/\ out.document_id \in DocIds
            /\ documents[out.document_id].company_id # out.company_id) => out.rows = <<>>

\* a search that found chunks of its company while a chunk of the other
\* company, left out, scores higher than all of them
C1_Witness ==
    /\ out.op = "search" /\ Retrieved
    /\ out.path \in {"hybrid", "fallback"}
    /\ \E c \in chunks :
          /\ c.company_id # out.company_id
          /\ \A i \in DOMAIN out.rows : out.rows[i].similarity_score < SemanticScore(scores, c)
          /\ \A i \in DOMAIN out.rows : out.rows[i].similarity_score < FinalScore(scores, c)

\* a search filtered to a stored document of the other company
C1_WitnessFilter ==
    /\ out.op = "search" /\ ~out.raised
    /\ out.path \in {"hybrid", "fallback"}
    /\ out.document_id \in DocIds
    /\ documents[out.document_id].company_id # out.company_id
    /\ \E c \in chunks : c.document_id = out.document_id
    /\ out.rows = <<>>

\* ------------------------------------------------------------ claims on answering
\* C9: when the best similarity_score of the retrieved chunks is below 0.3,
\* answer_question returns the fixed low-relevance answer, confidence 'low',
\* no citation and no source, whatever the language model would answer; the
\* language model is not asked.
C9_GroundingGate ==
    (out.op = "answer" /\ Retrieved /\ MaxSimilarity(out.rows) < GateThreshold) =>
        /\ out.answer = MsgLowRelevance
        /\ out.confidence = "low"
        /\ out.citations = <<>>
        /\ out.sources = <<>>
        /\ out.used_chunks = 0
        /\ ~out.llm_called

\* the gate closes at a best score of 0.2 although the language model would
\* have given an answer that the retrieved chunks support
C9_Witness ==
    /\ out.op = "answer" /\ Retrieved
    /\ MaxSimilarity(out.rows) = 200
    /\ out.llm.kind = "response"
    /\ Grounded(out.rows, CleanAnswerText(Strip(out.llm.text))).sources # <<>>
    /\ out.answer = MsgLowRelevance

\* the failures of the language-model client: a timeout, a failed request,
\* any other error, an empty response
LLMFailed(llm) ==
    \/ llm.kind \in {"timeout", "request_error", "error"}
    \/ llm.kind = "response" /\ llm.text = <<>>

\* C10: when the gate passes and the language-model client fails,
\* answer_question returns the fixed error answer, confidence 'error', no
\* citation and no source, and raises nothing.
C10_GenerationError ==
    (/\ out.op = "answer" /\ out.rows # <<>>
     /\ MaxSimilarity(out.rows) >= GateThreshold
     /\ LLMFailed(out.llm)) =>
        /\ ~out.raised
        /\ out.llm_called
        /\ out.answer = MsgGenerationError
        /\ out.confidence = "error"
        /\ out.citations = <<>>
        /\ out.sources = <<>>

\* every kind of failure is met behind a gate that passed
C10_Witness ==
    /\ out.op = "answer" /\ Retrieved
    /\ MaxSimilarity(out.rows) >= GateThreshold
    /\ out.llm.kind = "timeout"
    /\ out.answer = MsgGenerationError

\* C11: every answer text returned by answer_question is one of the three
\* fixed strings (no information with confidence 'none' when nothing was
\* retrieved, low relevance with confidence 'low', generation error with
\* confidence 'error') or the cleaned text of the language model; the
\* language model's text is returned only after chunks were retrieved, the
\* gate passed and the clean-up ran.
C11_AnswerTaxonomy ==
    (out.op = "answer" /\ ~out.raised) =>
        \/ /\ out.rows = <<>>
           /\ out.answer = MsgNoInformation /\ out.confidence = "none"
        \/ /\ out.rows # <<>>
           /\ out.answer = MsgLowRelevance /\ out.confidence = "low"
        \/ /\ out.rows # <<>>
           /\ out.answer = MsgGenerationError /\ out.confidence = "error"
        \/ /\ out.rows # <<>>
           /\ MaxSimilarity(out.rows) >= GateThreshold
           /\ out.llm.kind = "response"
           /\ out.llm_called
           /\ out.answer = CleanAnswerText(Strip(out.llm.text))
           /\ out.confidence \in {"high", "medium", "low"}

\* an answer of the language model that the clean-up changed reached the
\* caller
C11_Witness ==
    /\ out.op = "answer" /\ Retrieved
    /\ out.llm.kind = "response"
    /\ out.answer \notin {MsgNoInformation, MsgLowRelevance, MsgGenerationError}
    /\ out.answer # <<>>
    /\ out.answer # Strip(out.llm.text)

\* the call generated an answer: it returned the language model's text
AnswerGenerated ==
    /\ out.op = "answer" /\ Retrieved
    /\ out.llm_called
    /\ out.confidence # "error"

RowsOfGroup(entry) ==
    {i \in DOMAIN out.rows : /\ out.rows[i].document_id = entry.document_id
                             /\ out.rows[i].heading = entry.heading}

\* quote holds a keyword of the returned answer as a whole word
SharesKeyword(quote) ==
    \E keyword \in ExtractAnswerKeywords(out.answer) : Lower(keyword) \in Words(Lower(quote))

\* the quotes extracted from the retrieved chunk i
CandidateQuotes(i) == Range(ExtractQuotes(out.rows[i].text, MaxQuotes, MaxQuoteLength))

\* C13: every quote in the sources shares a whole-word keyword with the
\* cleaned answer; a retrieved chunk none of whose extracted quotes shares a
\* keyword contributes no quote, and a group made only of such chunks is in
\* neither sources nor citations.
C13_QuotesGrounded ==
    AnswerGenerated =>
        /\ \A s \in DOMAIN out.sources : \A n \in DOMAIN out.sources[s].quotes :
              /\ SharesKeyword(out.sources[s].quotes[n])
              /\ \E i \in RowsOfGroup(out.sources[s]) :
                    out.sources[s].quotes[n] \in CandidateQuotes(i)
        /\ \A i \in DOMAIN out.rows :
              (\A j \in RowsOfGroup(out.rows[i]) : \A q \in CandidateQuotes(j) : ~SharesKeyword(q))
                  => /\ \A s \in DOMAIN out.sources : i \notin RowsOfGroup(out.sources[s])
                     /\ \A s \in DOMAIN out.citations : i \notin RowsOfGroup(out.citations[s])

\* of two retrieved chunks with quotes, one supports the answer and is a
\* source, the other does not and is left out
C13_Witness ==
    /\ AnswerGenerated
    /\ out.sources # <<>>
    /\ \E i \in DOMAIN out.rows :
          /\ CandidateQuotes(i) # {}
          /\ \A s \in DOMAIN out.sources : i \notin RowsOfGroup(out.sources[s])

\* C14: each entry of sources carries at least 1 and at most 3 quotes,
\* however many retrieved chunks were merged into its group.
C14_QuotesPerSource ==
    (out.op = "answer" /\ ~out.raised) =>
        \A s \in DOMAIN out.sources :
            Len(out.sources[s].quotes) >= 1 /\ Len(out.sources[s].quotes) <= MaxGroupQuotes

\* a group of two chunks holds 3 quotes, and a fourth quote that supports
\* the answer and is no near-duplicate of them was cut
C14_Witness ==
    /\ AnswerGenerated
    /\ \E s \in DOMAIN out.sources :
          /\ Len(out.sources[s].quotes) = MaxGroupQuotes
          /\ \E i \in RowsOfGroup(out.sources[s]) : \E q \in CandidateQuotes(i) :
                /\ SharesKeyword(q)
                /\ ~IsDuplicate(q, out.sources[s].quotes)

\* C15: within each source group the quotes are deduplicated: no two quotes
\* of a group are identical and none is contained in another, also when
\* both come from the chunk that created the group.
C15_QuotesDeduplicated ==
    (out.op = "answer" /\ ~out.raised) =>
        \A s \in DOMAIN out.sources :
            \A n, k \in DOMAIN out.sources[s].quotes :
                n # k => ~Contains(out.sources[s].quotes[k], out.sources[s].quotes[n])

\* the score of the group of a source entry: the best similarity_score of
\* the retrieved chunks that gave it quotes supporting the answer
GroupScore(entry) ==
    LET contributing == {i \in RowsOfGroup(entry) : \E q \in CandidateQuotes(i) : SharesKeyword(q)}
    IN IF contributing = {} THEN 0 - 1
       ELSE MaxSimilarity([i \in 1..Len(out.rows) |->
                IF i \in contributing THEN out.rows[i]
                ELSE [out.rows[i] EXCEPT !.similarity_score = 0 - 1]])

\* C16: sources is ordered by non-increasing group score, the score of a
\* group being the best similarity_score of the chunks that contributed to
\* it, and citations names the same groups entry for entry.
C16_SourcesOrdered ==
    AnswerGenerated =>
        /\ Len(out.citations) = Len(out.sources)
        /\ \A s \in DOMAIN out.sources :
              /\ out.citations[s].document_id = out.sources[s].document_id
              /\ out.citations[s].document_filename = out.sources[s].filename
              /\ out.citations[s].heading = out.sources[s].heading
              /\ GroupScore(out.sources[s]) >= 0
        /\ \A s, t \in DOMAIN out.sources :
              s < t => GroupScore(out.sources[s]) >= GroupScore(out.sources[t])

\* two groups of different score are returned
C16_Witness ==
    /\ AnswerGenerated
    /\ Len(out.sources) = 2
    /\ GroupScore(out.sources[1]) > GroupScore(out.sources[2])
    /\ GroupScore(out.sources[2]) >= 0

\* ------------------------------------------------------------ claims on ranking
\* the chunks a search may draw from: those of the company, of the one
\* document when a filter is given
SearchPool ==
    {c \in chunks : /\ c.company_id = out.company_id
                    /\ out.document_id # NoFilter => c.document_id = out.document_id}

\* the chunks of the pool that the rows returned name
ReturnedChunks == UNION {ChunksNamed(out.rows[i]) : i \in DOMAIN out.rows}

\* how many chunks of the pool come before c by semantic score, for sure
\* (strictly higher) and at most (ties included)
SurelyBefore(c) == Cardinality({d \in SearchPool : scores[d].sem > scores[c].sem})
MaybeBefore(c) == Cardinality({d \in SearchPool \ {c} : scores[d].sem >= scores[c].sem})

\* C17: on the hybrid path a search returns at most top_k chunks, all among
\* the top max(top_k*4, 20) chunks of its pool by semantic score, ordered by
\* non-increasing final score, final = 0.7*semantic + 0.3*lexical, and no
\* candidate left out has a strictly higher final score than a returned one.
C17_HybridRanking ==
    (out.op = "search" /\ out.path = "hybrid" /\ ~out.raised) =>
        LET limit == IF out.top_k * 4 > 20 THEN out.top_k * 4 ELSE 20 IN
        /\ Len(out.rows) <= out.top_k
        /\ \A i \in DOMAIN out.rows :
              \E c \in SearchPool :
                  /\ ChunksNamed(out.rows[i]) = {c}
                  /\ SurelyBefore(c) < limit
                  /\ out.rows[i].semantic_score = scores[c].sem
                  /\ out.rows[i].lexical_score = scores[c].lex
                  /\ out.rows[i].similarity_score = (7 * scores[c].sem + 3 * scores[c].lex) \div 10
        /\ \A i, j \in DOMAIN out.rows :
              i < j => /\ out.rows[i].similarity_score >= out.rows[j].similarity_score
                       /\ out.rows[i].chunk_id # out.rows[j].chunk_id
        /\ \A d \in SearchPool \ ReturnedChunks :
              MaybeBefore(d) < limit =>
                  /\ Len(out.rows) = out.top_k
                  /\ \A i \in DOMAIN out.rows :
                        (7 * scores[d].sem + 3 * scores[d].lex) \div 10 <= out.rows[i].similarity_score

\* a search with top_k*4 above 20 returns a chunk that is not among the
\* top_k by semantic score, and leaves out a chunk of the company that is
\* beyond the candidate limit although its final score is higher than that
\* of a returned one
C17_Witness ==
    /\ out.op = "search" /\ out.path = "hybrid" /\ Retrieved
    /\ out.top_k * 4 > 20
    /\ Len(out.rows) = out.top_k
    /\ \E c \in ReturnedChunks : SurelyBefore(c) >= out.top_k
    /\ \E d \in SearchPool \ ReturnedChunks :
          /\ SurelyBefore(d) >= out.top_k * 4
          /\ \E i \in DOMAIN out.rows : FinalScore(scores, d) > out.rows[i].similarity_score

\* C18: when the hybrid query fails to execute, the search does not fail:
\* it returns the top_k chunks of the same pool by semantic score, each with
\* similarity_score equal to its semantic score and without the lexical and
\* final fields.
C18_FallbackNeverFails ==
    (out.op = "search" /\ out.path = "fallback") =>
        /\ ~out.raised
        /\ Len(out.rows) = Min(out.top_k, Cardinality(SearchPool))
        /\ \A i \in DOMAIN out.rows :
              /\ \E c \in SearchPool :
                    /\ ChunksNamed(out.rows[i]) = {c}
                    /\ SurelyBefore(c) < out.top_k
                    /\ out.rows[i].similarity_score = scores[c].sem
              /\ DOMAIN out.rows[i] \cap {"semantic_score", "lexical_score", "final_score"} = {}
        /\ \A i, j \in DOMAIN out.rows :
              i < j => /\ out.rows[i].similarity_score >= out.rows[j].similarity_score
                       /\ out.rows[i].chunk_id # out.rows[j].chunk_id

\* ------------------------------------------------------------ claims on chunking
\* C19: for every non-empty text, every chunk_size >= 1 and every overlap
\* with 0 <= overlap < chunk_size, every chunk that chunk_text returns has
\* at most chunk_size characters.
C19_ChunksWithinSize ==
    (out.op = "chunk" /\ out.text # <<>>) =>
        \A n \in DOMAIN out.chunks : Len(out.chunks[n]) <= out.chunk_size

\* a word longer than chunk_size was cut into chunks of chunk_size
\* characters and a rest, with an overlap
C19_Witness ==
    /\ out.op = "chunk"
    /\ \A i \in DOMAIN out.text : out.text[i] \notin Whitespace
    /\ Len(out.text) > out.chunk_size
    /\ out.overlap > 0
    /\ Len(out.chunks) >= 2
    /\ Len(out.chunks[1]) = out.chunk_size

\* C20: every tuple (chunk, char_start, char_end, heading) returned by
\* chunk_text_with_headings satisfies 0 <= char_start <= char_end <=
\* len(text), also when the chunk is not found in the text and the search
\* cursor is taken as its start.
C20_SpansInText ==
    out.op = "chunk" =>
        \A n \in DOMAIN out.tuples :
            /\ 0 <= out.tuples[n].char_start
            /\ out.tuples[n].char_start <= out.tuples[n].char_end
            /\ out.tuples[n].char_end <= Len(out.text)

\* ------------------------------------------------------------ claims on headings
\* the offset at which line n of the text starts
LineStart(n) == SumSeq([k \in 1..(n - 1) |-> Len(Lines(out.text)[k]) + 1])

\* C21: for every text and every position p >= 0,
\* find_heading_for_position(extract_headings(text), p) is the label of the
\* last heading line that starts at or before p, and none when no heading
\* line starts at or before p.
C21_NearestHeading ==
    out.op = "heading" =>
        LET before == {n \in DOMAIN out.accepted :
                            out.accepted[n] /\ LineStart(n) <= out.position}
        IN /\ Len(out.heading_map) = Len(out.accepted)
           /\ \A n \in DOMAIN out.heading_map : out.heading_map[n].line_start = LineStart(n)
           /\ before = {} => out.heading = NoHeading
           /\ before # {} =>
                LET last == CHOOSE n \in before : \A k \in before : k <= n
                IN /\ out.heading # NoHeading
                   /\ out.heading = out.heading_map[last].heading
                   /\ out.heading[1] \in {HeadingLabel(Lines(out.text)[last]),
                                          Strip(Lines(out.text)[last])}

\* a position at or after the second of two heading lines of different
\* labels, which follow a line that is no heading
C21_Witness ==
    /\ out.op = "heading"
    /\ Len(out.accepted) >= 3
    /\ ~out.accepted[1] /\ out.accepted[2] /\ out.accepted[3]
    /\ out.heading_map[2].heading # out.heading_map[3].heading
    /\ out.position >= LineStart(3)
    /\ out.heading = out.heading_map[3].heading
    /\ out.heading_map[1].heading = NoHeading

\* C22: for every line that is_heading accepts, the label extract_headings
\* stores is the trimmed line without its leading numeric outline prefix and
\* without its trailing colon (the trimmed line itself when nothing else is
\* left), also when the numbered line has leading whitespace.
C22_LabelWithoutPrefix ==
    out.op = "heading" =>
        \A n \in DOMAIN out.accepted :
            out.accepted[n] =>
                LET trimmed == Strip(Lines(out.text)[n])
                    body == Strip(SubSeq(trimmed, NumberingPrefix(trimmed) + 1, Len(trimmed)))
                    label == IF body # <<>> /\ body[Len(body)] = ":"
                             THEN Strip(SubSeq(body, 1, Len(body) - 1))
                             ELSE body
                IN out.heading_map[n].heading = <<IF label # <<>> THEN label ELSE trimmed>>

\* C28: is_heading accepts every line of the numbered form of its
\* documentation, an integer followed by a dot, whitespace and a title, and
\* every line of the dotted-outline form, an outline number followed by
\* whitespace and a title.
C28_NumberedFormsAccepted ==
    out.op = "heading" =>
        \A n \in DOMAIN out.accepted :
            LET trimmed == Strip(Lines(out.text)[n])
                digits == Run(trimmed, 1, Digits, TRUE)
                title == digits + 2 + SpaceRun(trimmed, digits + 2)
                numbered == /\ digits > 0
                            /\ digits + 1 <= Len(trimmed)
                            /\ trimmed[digits + 1] = "."
                            /\ SpaceRun(trimmed, digits + 2) > 0
                            /\ title <= Len(trimmed)
                            /\ trimmed[title] \in UpperLetters
                outline == /\ digits > 0
                           /\ Outline(trimmed, digits + 1) > digits + 1
                           /\ NumberingPrefix(trimmed) > 0
                           /\ NumberingPrefix(trimmed) < Len(trimmed)
            IN (numbered \/ outline) => out.accepted[n]

\* ------------------------------------------------------------ claims on the endpoints
\* the caller of company_id may not learn of document_id: a well-formed id
\* of no document, or of a document of another company
Hidden(docs, company_id, document_id) ==
    /\ document_id \in AllIds
    /\ document_id \in DOMAIN docs => docs[document_id].company_id # company_id

\* the status and the detail of a response
Refusal(response) == [status_code |-> response.status_code, detail |-> response.detail]

\* C23: when the get, index or delete endpoint is asked for a well-formed id
\* that the caller's company has no document of, its response has the
\* status and the detail of its response for every other such id, whether
\* that id names a document of another company or none at all, it carries
\* no body, and the request changes no stored document and no stored chunk.
C23_HiddenIndistinguishable ==
    [][(out.op = "none" /\ out'.op \in {"get", "index", "delete"}
          /\ Hidden(documents, out'.company_id, out'.document_id))
       => /\ \A other \in AllIds :
                Hidden(documents, out'.company_id, other)
                => Refusal(out') = DocumentLookup(documents, out'.company_id, other)
          /\ out'.status_code # 0
          /\ out'.body = NoBody
          /\ documents' = documents
          /\ chunks' = chunks
          /\ UNCHANGED ixvars]_vars

\* C23 witness: company A has asked to delete the indexed document of
\* company B and was told that there is no such document
C23_Witness ==
    /\ out.op = "delete"
    /\ out.company_id = "A"
    /\ out.document_id \in DOMAIN documents
    /\ documents[out.document_id].company_id = "B"
    /\ \E c \in chunks : c.document_id = out.document_id
    /\ out.status_code = 404

\* ------------------------------------------------------------ claims on the embedding client
\* C24: every value embedder.embed has returned to index_document is None or
\* a vector of exactly 768 components.
C24_EmbedValidatesDimension ==
    \A d \in DocIds : \A i \in DOMAIN session[d].embeddings :
        session[d].embeddings[i] \in {0, EmbedDim}

\* ------------------------------------------------------------ claims on re-indexing
\* what the claims compare of chunk rows: the ordinal, the chunk tuple of the
\* chunker (text, character span, heading) and the embedding, not the
\* generation the row was written in
Content(rows) == {[chunk_index |-> c.chunk_index, pos |-> c.pos, dim |-> c.dim] : c \in rows}

\* what one pass over d's text persists in an empty store when the embedding
\* stub answers with embeddings
IndexedOnce(d, embeddings) ==
    Content(ChunkRows(documents[d], d, ChunksWithMetadata(documents[d].text_extracted),
                      embeddings, 1))

C29_IndexedHasValidChunks ==
    /\ \A d \in DocIds : documents[d].index_status = INDEXED => ChunksOf(d) # {}
    /\ \A c \in chunks :
          /\ c.dim = EmbedDim
          /\ c.document_id \in DOMAIN documents
          /\ c.company_id = documents[c.document_id].company_id

\* C29 witness: a document is indexed again after a pass in which the
\* embedding service answered with a vector of another length for one chunk
C29_Witness ==
    \E d \in DocIds :
        /\ documents[d].index_status = INDEXED
        /\ passes[d] >= 2
        /\ pc[d] = "idle"
        /\ result[d].success
        /\ result[d].chunks_created < result[d].produced
        /\ ChunksOf(d) # {}

\* ------------------------------------------------------------ claims on concurrent passes
\* C30: in every step of concurrently running index_document calls, a
\* document whose own call takes no step keeps its chunks, its index-status
\* and its index_error; and a document's chunks and row after a step are
\* either what they were or what its own call's DELETE of its chunks and
\* the commit of its own call's session make of its own chunks and row, so
\* that the state a call leaves its document in does not depend on the calls
\* on other documents.
C30_PassesDoNotInterfere ==
    [][\A x \in DocIds :
          /\ (pc'[x] = pc[x] /\ session'[x] = session[x] /\ result'[x] = result[x])
                => (documents'[x] = documents[x] /\ ChunksOf(x)' = ChunksOf(x))
          /\ ChunksOf(x)' \in {ChunksOf(x),
                               CommitChunkRows(ChunksOf(x), x, session[x].txn),
                               CommitChunkRows(ChunksOf(x), x,
                                               [session[x].txn EXCEPT !.deleted = TRUE])}
          /\ documents'[x] \in {documents[x],
                                CommitDocuments(documents, x, session[x].txn)[x]}]_vars

\* C30 witness: the calls on two documents have run interleaved and both
\* have committed their chunks
C30_Witness ==
    \E x, y \in DocIds :
        /\ x # y
        /\ pc[x] = "L128" /\ pc[y] = "L128"
        /\ ChunksOf(x) # {} /\ ChunksOf(y) # {}

\* ------------------------------------------------------------ claims on the prompt
\* the offset in the context block at which the text of the i-th retrieved
\* chunk starts
TextOffset(rows, i) == Len(ContextBlock(SubSeq(rows, 1, i - 1))) + Len(ContextHeader(rows[i]))

\* the text of the i-th retrieved chunk was cut out of the prompt entirely:
\* the trimmed block ends before its first character
CutOut(rows, i, max_context_chars) ==
    /\ TrimmedContext(rows, max_context_chars) # ContextBlock(rows)
    /\ TextOffset(rows, i) >= max_context_chars

\* C26: when answer_question generates an answer, then under every budget
\* configured every source and every citation belongs to the group of a
\* retrieved chunk whose text is at least partly in the prompt, and every
\* quote was extracted from such a chunk: a chunk cut out of the prompt
\* entirely contributes no quote, source or citation.
C26_SourcesFromPromptOnly ==
    AnswerGenerated =>
        \A max_context_chars \in ContextBudgets :
            /\ \A s \in DOMAIN out.sources :
                  /\ \E i \in RowsOfGroup(out.sources[s]) : ~CutOut(out.rows, i, max_context_chars)
                  /\ \A n \in DOMAIN out.sources[s].quotes :
                        \E i \in RowsOfGroup(out.sources[s]) :
                            /\ ~CutOut(out.rows, i, max_context_chars)
                            /\ out.sources[s].quotes[n] \in CandidateQuotes(i)
            /\ \A s \in DOMAIN out.citations :
                  \E i \in RowsOfGroup(out.citations[s]) : ~CutOut(out.rows, i, max_context_chars)

\* ------------------------------------------------------------ claims on quotes
\* C27: every quote _extract_quotes returns is at most max_length characters
\* long, the ellipsis of a truncated quote included.
C27_QuoteWithinMaxLength ==
    out.op = "quotes" =>
        \A n \in DOMAIN out.quotes : Len(out.quotes[n]) <= out.max_length

====
